---- MODULE Spec2Model ----
(***************************************************************************)
(* Option / Result algebra of ts-core (src/types/maybe) and its            *)
(* asynchronous counterparts OptionAsync / ResultAsync.                    *)
(*                                                                         *)
(* Every JavaScript value is a record [tag, value].  Equality of records  *)
(* is the structural equality the test-suite uses (toStrictEqual).         *)
(* A method call is modelled by the pair [ret, log]: the value returned    *)
(* and the sequence of callback invocations the call performed.            *)
(***************************************************************************)
EXTENDS Integers, Sequences, FiniteSets, TLC

VARIABLES op, recv, fn, gn, args, res, log

\* the run of one async aggregator: its inputs, the position of its
\* coroutine, the loop index, the values collected so far and the inputs
\* it has awaited, in the order it awaited them; for the consumers of one
\* async wrapper: awaited holds the reactions registered on its promise
\* and not yet run, acc what the consumers have observed so far
VARIABLES family, inputs, pc, idx, acc, awaited

callVars == <<op, recv, fn, gn, args, res, log>>

aggVars == <<family, inputs, pc, idx, acc, awaited>>

vars == <<op, recv, fn, gn, args, res, log,
          family, inputs, pc, idx, acc, awaited>>

----------------------------------------------------------------------------
(* Values *)

Atom(a) == [tag |-> "atom", value |-> a]

Undefined == Atom("undefined")

\* unit(): Object.freeze({}); all units are structurally equal
unit == Atom("unit")

Null == Atom("null")

V1 == Atom("1")

V2 == Atom("2")

\* new Error(message)
Error_new(message) == [tag |-> "Error", value |-> message]

\* the completion of a call that threw: throw error
Thrown(error) == [tag |-> "thrown", value |-> error]

\* what a failing callback throws and a failing computation rejects with
Boom == Atom("boom")

\* what a throw statement or a rejection carries
Reasons == {Boom, Undefined}

\* what application code passes as a payload or returns from a callback
Payloads == {V1, V2, Undefined}

\* Object.freeze(obj): the own properties of obj become read-only
Object_freeze(obj) == [obj EXCEPT !.frozen = TRUE]

\* a slip that leaves out Object.freeze(opt)
Some_new_notFrozen(value) ==
    [tag |-> "Some", value |-> value, frozen |-> FALSE]

\* Some.new / None.new / Ok.new / Err.new: the private constructor stores
\* the argument, then the instance is frozen
Some_new(value) ==
    Object_freeze([tag |-> "Some", value |-> value, frozen |-> FALSE])

None_new == Object_freeze([tag |-> "None", value |-> <<>>, frozen |-> FALSE])

Ok_new(value) ==
    Object_freeze([tag |-> "Ok", value |-> value, frozen |-> FALSE])

Err_new(error) ==
    Object_freeze([tag |-> "Err", value |-> error, frozen |-> FALSE])

\* some(value = unit()): a default parameter replaces undefined by unit()
some(value) == Some_new(IF value = Undefined THEN unit ELSE value)

none == None_new

ok(value) == Ok_new(IF value = Undefined THEN unit ELSE value)

err(error) == Err_new(IF error = Undefined THEN unit ELSE error)

\* the payloads a variant built by some / ok / err can hold
Held == {some(p).value : p \in Payloads}

Options == {none} \cup {some(p) : p \in Payloads}

Results == {ok(p) : p \in Payloads} \cup {err(p) : p \in Payloads}

----------------------------------------------------------------------------
(* Callbacks and calls *)

\* a callback: a name and the function it computes
Callback(name, map) == [name |-> name, map |-> map]

Invocation(cb, arg) == [cb |-> cb.name, arg |-> arg]

Call(ret, invocations) == [ret |-> ret, log |-> invocations]

\* callbacks of map / mapErr: payload to payload
MapFns == [Held -> Payloads]

\* callbacks of Option.andThen
OptionBindFns == [Held -> Options]

\* callbacks of Result.andThen / Result.orElse
ResultBindFns == [Held -> Results]

NoFn == Callback("none", [x \in Held |-> Undefined])

----------------------------------------------------------------------------
(* Option: class None and class Some.  Each method is written once, with   *)
(* the body of None's method first and the body of Some's method second.   *)

isNone(self) == IF self.tag = "None" THEN TRUE ELSE FALSE

isSome(self) == IF self.tag = "None" THEN FALSE ELSE TRUE

\* Some.inner / Ok.inner / Err.inner: the held payload
inner(self) == self.value

\* None: matcher.none(); Some: matcher.some(this.value)
Option_match(self, someFn, noneFn) ==
    IF self.tag = "None"
    THEN Call(noneFn.map[Undefined], <<Invocation(noneFn, Undefined)>>)
    ELSE Call(someFn.map[self.value], <<Invocation(someFn, self.value)>>)

Option_okOr(self, error) ==
    IF self.tag = "None"
    THEN Call(err(error), <<>>)
    ELSE Call(ok(self.value), <<>>)

\* a slip that computes the error before looking at the variant
Option_okOrElse_eager(self, f) ==
    IF self.tag = "None"
    THEN Call(err(f.map[Undefined]), <<Invocation(f, Undefined)>>)
    ELSE Call(ok(self.value), <<Invocation(f, Undefined)>>)

\* None: return err(fn()); a throw of fn() leaves the method before err is
\* applied
Option_okOrElse(self, f) ==
    IF self.tag = "None"
    THEN LET error == f.map[Undefined] IN
        Call(IF error.tag = "thrown" THEN error ELSE err(error),
             <<Invocation(f, Undefined)>>)
    ELSE Call(ok(self.value), <<>>)

Option_unwrapOr(self, value) ==
    IF self.tag = "None"
    THEN Call(value, <<>>)
    ELSE Call(self.value, <<>>)

Option_unwrapOrElse(self, f) ==
    IF self.tag = "None"
    THEN Call(f.map[Undefined], <<Invocation(f, Undefined)>>)
    ELSE Call(self.value, <<>>)

\* None: throw new Error(...); Some: return this.value
Option__unwrap(self) ==
    IF self.tag = "None"
    THEN Call(Thrown(Error_new("Attempted to unwrap none option")), <<>>)
    ELSE Call(self.value, <<>>)

\* a slip that guards the callback and turns its error into None
Option_map_catches(self, f) ==
    IF self.tag = "None"
    THEN Call(self, <<>>)
    ELSE LET value == f.map[self.value] IN
        Call(IF value.tag = "thrown" THEN none ELSE some(value),
             <<Invocation(f, self.value)>>)

\* None: return this; Some: return some(fn(this.value)); the method has no
\* try, so a throw of fn leaves it before some is applied
Option_map(self, f) ==
    IF self.tag = "None"
    THEN Call(self, <<>>)
    ELSE LET value == f.map[self.value] IN
        Call(IF value.tag = "thrown" THEN value ELSE some(value),
             <<Invocation(f, self.value)>>)

\* None: return this; Some: return fn(this.value)
Option_andThen(self, f) ==
    IF self.tag = "None"
    THEN Call(self, <<>>)
    ELSE Call(f.map[self.value], <<Invocation(f, self.value)>>)

----------------------------------------------------------------------------
(* Result: class Err and class Ok.  Each method is written once, with the  *)
(* body of Err's method first and the body of Ok's method second.          *)

isErr(self) == IF self.tag = "Err" THEN TRUE ELSE FALSE

isOk(self) == IF self.tag = "Err" THEN FALSE ELSE TRUE

Result_match(self, okFn, errFn) ==
    IF self.tag = "Err"
    THEN Call(errFn.map[self.value], <<Invocation(errFn, self.value)>>)
    ELSE Call(okFn.map[self.value], <<Invocation(okFn, self.value)>>)

Result_ok(self) ==
    IF self.tag = "Err" THEN Call(none, <<>>) ELSE Call(some(self.value), <<>>)

\* a slip that copies Ok.ok / Err.ok into err
Result_err_asOk(self) ==
    IF self.tag = "Err" THEN Call(none, <<>>) ELSE Call(some(self.value), <<>>)

Result_err(self) ==
    IF self.tag = "Err" THEN Call(some(self.value), <<>>) ELSE Call(none, <<>>)

Result_unwrapOr(self, value) ==
    IF self.tag = "Err" THEN Call(value, <<>>) ELSE Call(self.value, <<>>)

Result_unwrapOrElse(self, f) ==
    IF self.tag = "Err"
    THEN Call(f.map[Undefined], <<Invocation(f, Undefined)>>)
    ELSE Call(self.value, <<>>)

Result_unwrapErrOr(self, error) ==
    IF self.tag = "Err" THEN Call(self.value, <<>>) ELSE Call(error, <<>>)

Result_unwrapErrOrElse(self, f) ==
    IF self.tag = "Err"
    THEN Call(self.value, <<>>)
    ELSE Call(f.map[Undefined], <<Invocation(f, Undefined)>>)

\* a slip that wraps the held error in a new Error instead of throwing it
Result__unwrap_wrapsError(self) ==
    IF self.tag = "Err"
    THEN Call(Thrown(Error_new("Tried unwrapping an Err value.")), <<>>)
    ELSE Call(self.value, <<>>)

\* Err: throw this.error; Ok: return this.value
Result__unwrap(self) ==
    IF self.tag = "Err"
    THEN Call(Thrown(self.value), <<>>)
    ELSE Call(self.value, <<>>)

\* Err: return this.error; Ok: throw new Error(...)
Result__unwrapErr(self) ==
    IF self.tag = "Err"
    THEN Call(self.value, <<>>)
    ELSE Call(Thrown(Error_new("Tried unwrapping an Ok value as an error.")),
              <<>>)

\* Err: return this; Ok: return ok(fn(this.value))
Result_map(self, f) ==
    IF self.tag = "Err"
    THEN Call(self, <<>>)
    ELSE LET value == f.map[self.value] IN
        Call(IF value.tag = "thrown" THEN value ELSE ok(value),
             <<Invocation(f, self.value)>>)

\* Err: return err(fn(this.error)); Ok: return this
Result_mapErr(self, f) ==
    IF self.tag = "Err"
    THEN LET error == f.map[self.value] IN
        Call(IF error.tag = "thrown" THEN error ELSE err(error),
             <<Invocation(f, self.value)>>)
    ELSE Call(self, <<>>)

\* a slip in Err.andThen that turns the failure into a success instead of
\* passing it on
Result_andThen_recovers(self, f) ==
    IF self.tag = "Err"
    THEN Call(ok(self.value), <<>>)
    ELSE Call(f.map[self.value], <<Invocation(f, self.value)>>)

\* Err: return this; Ok: return fn(this.value)
Result_andThen(self, f) ==
    IF self.tag = "Err"
    THEN Call(self, <<>>)
    ELSE Call(f.map[self.value], <<Invocation(f, self.value)>>)

\* a slip in Ok.orElse that runs the error callback on the success payload
Result_orElse_callsFn(self, f) ==
    Call(f.map[self.value], <<Invocation(f, self.value)>>)

\* Err: return fn(this.error); Ok: return this
Result_orElse(self, f) ==
    IF self.tag = "Err"
    THEN Call(f.map[self.value], <<Invocation(f, self.value)>>)
    ELSE Call(self, <<>>)

\* x.m1(..).m2(..): the second call is made on first.ret; the chain returns
\* what the second call returns and performs the invocations of both; when
\* the first call throws the second is not made
Chain(first, second) ==
    IF first.ret.tag = "thrown" THEN first
    ELSE Call(second.ret, first.log \o second.log)

----------------------------------------------------------------------------
(* The synchronous algebra: one call of one method on drawn inputs *)

\* no async aggregator is running
NoAggregator ==
    /\ family = "none"
    /\ inputs = <<>>
    /\ pc = "idle"
    /\ idx = 0
    /\ acc = <<>>
    /\ awaited = <<>>

MapCallbacks == {Callback("f", m) : m \in MapFns}

MapErrCallbacks == {Callback("g", m) : m \in MapFns}

OptionBindCallbacks == {Callback("f", m) : m \in OptionBindFns}

ResultBindCallbacks == {Callback("f", m) : m \in ResultBindFns}

\* () => U: the lazily computed fallback of okOrElse / unwrapOrElse
Thunks == {Callback("g", m) : m \in [{Undefined} -> Payloads]}

\* f is a callback called name that returns one of results or throws
Maps(f, name, results) ==
    /\ f.name = name
    /\ f.map \in [Held -> results \cup {Thrown(Boom)}]

\* g is a thunk that returns one of results or throws
Supplies(g, results) ==
    /\ g.name = "g"
    /\ g.map \in [{Undefined} -> results \cup {Thrown(Boom)}]

InitCallbacks ==
    /\ \/ /\ recv \in Options
          /\ fn \in MapCallbacks \cup OptionBindCallbacks
          /\ gn = NoFn
       \/ /\ recv \in Results
          /\ fn \in MapCallbacks
          /\ gn \in MapErrCallbacks
       \/ /\ recv \in Results
          /\ fn \in ResultBindCallbacks
          /\ gn = NoFn
    /\ args = <<>>

\* a receiver, a fallback argument and a fallback thunk
InitFallback ==
    /\ recv \in Options \cup Results
    /\ fn = NoFn
    /\ gn \in Thunks
    /\ args \in {<<v>> : v \in Payloads}

Init ==
    /\ NoAggregator
    /\ op = "init"
    /\ res = Undefined
    /\ log = <<>>
    /\ (InitCallbacks \/ InitFallback)

Return(name, call) ==
    /\ op' = name
    /\ res' = call.ret
    /\ log' = call.log
    /\ UNCHANGED <<recv, fn, gn, args>>
    /\ UNCHANGED aggVars

CallOptionMap ==
    /\ op = "init" /\ recv \in Options /\ Maps(fn, "f", Payloads)
    /\ Return("Option.map", Option_map(recv, fn))

CallOptionAndThen ==
    /\ op = "init" /\ recv \in Options /\ Maps(fn, "f", Options)
    /\ Return("Option.andThen", Option_andThen(recv, fn))

CallResultMap ==
    /\ op = "init" /\ recv \in Results /\ Maps(fn, "f", Payloads)
    /\ Return("Result.map", Result_map(recv, fn))

CallResultMapErr ==
    /\ op = "init" /\ recv \in Results /\ Maps(gn, "g", Payloads)
    /\ Return("Result.mapErr", Result_mapErr(recv, gn))

CallResultMapMapErr ==
    /\ op = "init" /\ recv \in Results
    /\ Maps(fn, "f", Payloads) /\ Maps(gn, "g", Payloads)
    /\ LET mapped == Result_map(recv, fn) IN
        Return("Result.map.mapErr",
               Chain(mapped, Result_mapErr(mapped.ret, gn)))

CallResultAndThen ==
    /\ op = "init" /\ recv \in Results /\ Maps(fn, "f", Results)
    /\ Return("Result.andThen", Result_andThen(recv, fn))

CallResultOrElse ==
    /\ op = "init" /\ recv \in Results /\ Maps(fn, "f", Results)
    /\ Return("Result.orElse", Result_orElse(recv, fn))

CallOptionOkOr ==
    /\ op = "init" /\ recv \in Options /\ Len(args) = 1
    /\ Return("Option.okOr", Option_okOr(recv, args[1]))

CallOptionOkOrElse ==
    /\ op = "init" /\ recv \in Options /\ Supplies(gn, Payloads)
    /\ Return("Option.okOrElse", Option_okOrElse(recv, gn))

CallOptionUnwrapOr ==
    /\ op = "init" /\ recv \in Options /\ Len(args) = 1
    /\ Return("Option.unwrapOr", Option_unwrapOr(recv, args[1]))

CallOptionUnwrapOrElse ==
    /\ op = "init" /\ recv \in Options /\ Supplies(gn, Payloads)
    /\ Return("Option.unwrapOrElse", Option_unwrapOrElse(recv, gn))

CallResultOk ==
    /\ op = "init" /\ recv \in Results /\ Len(args) = 1
    /\ Return("Result.ok", Result_ok(recv))

CallResultErr ==
    /\ op = "init" /\ recv \in Results /\ Len(args) = 1
    /\ Return("Result.err", Result_err(recv))

CallResultUnwrapOr ==
    /\ op = "init" /\ recv \in Results /\ Len(args) = 1
    /\ Return("Result.unwrapOr", Result_unwrapOr(recv, args[1]))

CallResultUnwrapOrElse ==
    /\ op = "init" /\ recv \in Results /\ Supplies(gn, Payloads)
    /\ Return("Result.unwrapOrElse", Result_unwrapOrElse(recv, gn))

CallResultUnwrapErrOr ==
    /\ op = "init" /\ recv \in Results /\ Len(args) = 1
    /\ Return("Result.unwrapErrOr", Result_unwrapErrOr(recv, args[1]))

CallResultUnwrapErrOrElse ==
    /\ op = "init" /\ recv \in Results /\ Supplies(gn, Payloads)
    /\ Return("Result.unwrapErrOrElse", Result_unwrapErrOrElse(recv, gn))

CallOptionUnwrap ==
    /\ op = "init" /\ recv \in Options
    /\ Return("Option._unwrap", Option__unwrap(recv))

CallResultUnwrap ==
    /\ op = "init" /\ recv \in Results
    /\ Return("Result._unwrap", Result__unwrap(recv))

CallResultUnwrapErr ==
    /\ op = "init" /\ recv \in Results
    /\ Return("Result._unwrapErr", Result__unwrapErr(recv))

Next ==
    \/ CallOptionMap
    \/ CallOptionAndThen
    \/ CallResultMap
    \/ CallResultMapErr
    \/ CallResultMapMapErr
    \/ CallResultAndThen
    \/ CallResultOrElse
    \/ CallOptionOkOr
    \/ CallOptionOkOrElse
    \/ CallOptionUnwrapOr
    \/ CallOptionUnwrapOrElse
    \/ CallResultOk
    \/ CallResultErr
    \/ CallResultUnwrapOr
    \/ CallResultUnwrapOrElse
    \/ CallResultUnwrapErrOr
    \/ CallResultUnwrapErrOrElse
    \/ CallOptionUnwrap
    \/ CallResultUnwrap
    \/ CallResultUnwrapErr

Spec == Init /\ [][Next]_vars

----------------------------------------------------------------------------
(* The lifetime of one instance: any sequence of calls on the same         *)
(* receiver, and code that holds a reference to it trying to assign to it  *)

\* the caller goes on to its next call on the same receiver
NextCall ==
    /\ op # "init"
    /\ op' = "init"
    /\ res' = Undefined
    /\ log' = <<>>
    /\ UNCHANGED <<recv, fn, gn, args>>
    /\ UNCHANGED aggVars

\* receiver.value = x in strict mode: a TypeError on a frozen object, an
\* assignment otherwise
AttemptWrite ==
    /\ op = "init"
    /\ \E x \in Payloads :
          IF recv.frozen
          THEN /\ res' = Thrown([tag |-> "TypeError", value |-> "value"])
               /\ UNCHANGED recv
          ELSE /\ res' = x
               /\ recv' = [recv EXCEPT !.value = x]
    /\ op' = "write"
    /\ log' = <<>>
    /\ UNCHANGED <<fn, gn, args>>
    /\ UNCHANGED aggVars

NextLifetime ==
    \/ CallOptionMap
    \/ CallOptionAndThen
    \/ CallResultMap
    \/ CallResultMapErr
    \/ CallResultMapMapErr
    \/ CallResultAndThen
    \/ CallResultOrElse
    \/ CallOptionOkOr
    \/ CallOptionOkOrElse
    \/ CallOptionUnwrapOr
    \/ CallOptionUnwrapOrElse
    \/ CallResultOk
    \/ CallResultErr
    \/ CallResultUnwrapOr
    \/ CallResultUnwrapOrElse
    \/ CallResultUnwrapErrOr
    \/ CallResultUnwrapErrOrElse
    \/ CallOptionUnwrap
    \/ CallResultUnwrap
    \/ CallResultUnwrapErr
    \/ NextCall
    \/ AttemptWrite

SpecLifetime == Init /\ [][NextLifetime]_vars

----------------------------------------------------------------------------
(* Bind associativity: both sides of the law on the same drawn inputs *)

\* a.andThen(f).andThen(g)
Option_bindLeft(a, f, g) ==
    LET first == Option_andThen(a, f) IN
        Chain(first, Option_andThen(first.ret, g))

\* a.andThen(v => f(v).andThen(g))
Option_bindNested(a, f, g) ==
    Option_andThen(a,
        Callback("h", [v \in Held |-> Option_andThen(f.map[v], g).ret]))

Result_bindLeft(a, f, g) ==
    LET first == Result_andThen(a, f) IN
        Chain(first, Result_andThen(first.ret, g))

Result_bindNested(a, f, g) ==
    Result_andThen(a,
        Callback("h", [v \in Held |-> Result_andThen(f.map[v], g).ret]))

InitBind ==
    /\ NoAggregator
    /\ op = "init"
    /\ res = Undefined
    /\ log = <<>>
    /\ args = <<>>
    /\ \/ /\ recv \in Options
          /\ fn \in OptionBindCallbacks
          /\ gn \in {Callback("g", m) : m \in OptionBindFns}
       \/ /\ recv \in Results
          /\ fn \in ResultBindCallbacks
          /\ gn \in {Callback("g", m) : m \in ResultBindFns}

CallOptionBindLeft ==
    /\ op = "init" /\ recv \in Options
    /\ Return("Option.andThen.andThen", Option_bindLeft(recv, fn, gn))

CallOptionBindNested ==
    /\ op = "init" /\ recv \in Options
    /\ Return("Option.andThen(nested)", Option_bindNested(recv, fn, gn))

CallResultBindLeft ==
    /\ op = "init" /\ recv \in Results
    /\ Return("Result.andThen.andThen", Result_bindLeft(recv, fn, gn))

CallResultBindNested ==
    /\ op = "init" /\ recv \in Results
    /\ Return("Result.andThen(nested)", Result_bindNested(recv, fn, gn))

NextBind ==
    \/ CallOptionBindLeft
    \/ CallOptionBindNested
    \/ CallResultBindLeft
    \/ CallResultBindNested

SpecBind == InitBind /\ [][NextBind]_vars

----------------------------------------------------------------------------
(* namespace Option / namespace Result: all and any over argument lists *)

\* a JavaScript array
Array(elements) == [tag |-> "array", value |-> elements]

\* largest number of arguments given to an aggregator
MaxInputs == 3

ArgLists(S) == UNION {[1..n -> S] : n \in 0..MaxInputs}

Max(S) == CHOOSE x \in S : \A y \in S : y <= x

Min(S) == CHOOSE x \in S : \A y \in S : x <= y

RECURSIVE Option_all_loop(_, _, _)
\* for (const option of options), from the i-th argument on
Option_all_loop(options, i, someValues) ==
    IF i > Len(options) THEN some(Array(someValues))
    ELSE IF isNone(options[i]) THEN none
    ELSE Option_all_loop(options, i + 1,
                         Append(someValues, inner(options[i])))

\* a slip that takes an empty argument list for a failure
Option_all_noneOnEmpty(options) ==
    IF options = <<>> THEN none ELSE Option_all_loop(options, 1, <<>>)

Option_all(options) == Option_all_loop(options, 1, <<>>)

RECURSIVE Option_any_loop(_, _)
Option_any_loop(options, i) ==
    IF i > Len(options) THEN none
    ELSE IF isSome(options[i]) THEN options[i]
    ELSE Option_any_loop(options, i + 1)

\* a slip that keeps scanning and returns the last Some
Option_any_last(options) ==
    LET somes == {i \in DOMAIN options : isSome(options[i])} IN
        IF somes = {} THEN none ELSE options[Max(somes)]

Option_any(options) == Option_any_loop(options, 1)

RECURSIVE Result_all_loop(_, _, _)
Result_all_loop(results, i, okValues) ==
    IF i > Len(results) THEN ok(Array(okValues))
    ELSE IF isErr(results[i]) THEN results[i]
    ELSE Result_all_loop(results, i + 1,
                         Append(okValues, inner(results[i])))

\* a slip that keeps scanning and returns the last Err
Result_all_last(results) ==
    LET errs == {i \in DOMAIN results : isErr(results[i])} IN
        IF errs = {} THEN Result_all_loop(results, 1, <<>>)
        ELSE results[Max(errs)]

Result_all(results) == Result_all_loop(results, 1, <<>>)

RECURSIVE Result_any_loop(_, _, _)
Result_any_loop(results, i, errValues) ==
    IF i > Len(results) THEN err(Array(errValues))
    ELSE IF isOk(results[i]) THEN results[i]
    ELSE Result_any_loop(results, i + 1,
                         Append(errValues, inner(results[i])))

\* a slip that short-circuits like all and keeps only the first error
Result_any_firstErr(results) ==
    LET oks == {i \in DOMAIN results : isOk(results[i])} IN
        IF oks # {} THEN results[Min(oks)]
        ELSE IF results = <<>> THEN err(Array(<<>>))
        ELSE err(Array(<<inner(results[1])>>))

Result_any(results) == Result_any_loop(results, 1, <<>>)

InitAggregate ==
    /\ NoAggregator
    /\ op = "init"
    /\ res = Undefined
    /\ log = <<>>
    /\ recv = Undefined
    /\ fn = NoFn
    /\ gn = NoFn
    /\ args \in ArgLists(Options) \cup ArgLists(Results)

CallOptionAll ==
    /\ op = "init" /\ args \in ArgLists(Options)
    /\ Return("Option.all", Call(Option_all(args), <<>>))

CallOptionAny ==
    /\ op = "init" /\ args \in ArgLists(Options)
    /\ Return("Option.any", Call(Option_any(args), <<>>))

CallResultAll ==
    /\ op = "init" /\ args \in ArgLists(Results)
    /\ Return("Result.all", Call(Result_all(args), <<>>))

CallResultAny ==
    /\ op = "init" /\ args \in ArgLists(Results)
    /\ Return("Result.any", Call(Result_any(args), <<>>))

NextAggregate ==
    \/ CallOptionAll
    \/ CallOptionAny
    \/ CallResultAll
    \/ CallResultAny

SpecAggregate == InitAggregate /\ [][NextAggregate]_vars

----------------------------------------------------------------------------
(* Callbacks that throw: one call of one safe method, any callback of       *)
(* which may return or throw                                                *)

\* callbacks called name over the payloads a variant holds
Raising(name, results) ==
    {Callback(name, m) : m \in [Held -> results \cup {Thrown(Boom)}]}

RaisingThunks ==
    {Callback("g", m) : m \in [{Undefined} -> Payloads \cup {Thrown(Boom)}]}

InitRaise ==
    /\ NoAggregator
    /\ op = "init"
    /\ res = Undefined
    /\ log = <<>>
    /\ \/ /\ recv \in Options
          /\ fn \in Raising("f", Payloads) \cup Raising("f", Options)
          /\ gn \in RaisingThunks
          /\ args = <<>>
       \/ /\ recv \in Results
          /\ fn \in Raising("f", Payloads)
          /\ gn \in Raising("g", Payloads)
          /\ args = <<>>
       \/ /\ recv \in Results
          /\ fn \in Raising("f", Results)
          /\ gn \in RaisingThunks
          /\ args = <<>>
       \/ /\ recv \in Options \cup Results
          /\ fn = NoFn
          /\ gn = NoFn
          /\ args \in {<<v>> : v \in Payloads}
       \/ /\ recv = Undefined
          /\ fn = NoFn
          /\ gn = NoFn
          /\ args \in ArgLists(Options) \cup ArgLists(Results)

\* option.match({ some: fn, none: gn })
CallOptionMatch ==
    /\ op = "init" /\ recv \in Options
    /\ fn.name = "f" /\ Supplies(gn, Payloads)
    /\ Return("Option.match", Option_match(recv, fn, gn))

\* result.match({ ok: fn, err: gn })
CallResultMatch ==
    /\ op = "init" /\ recv \in Results
    /\ fn.name = "f" /\ gn.name = "g" /\ DOMAIN gn.map = DOMAIN fn.map
    /\ Return("Result.match", Result_match(recv, fn, gn))

NextRaise ==
    \/ CallOptionMap
    \/ CallOptionAndThen
    \/ CallOptionMatch
    \/ CallResultMap
    \/ CallResultMapErr
    \/ CallResultMapMapErr
    \/ CallResultAndThen
    \/ CallResultOrElse
    \/ CallResultMatch
    \/ CallOptionOkOr
    \/ CallOptionOkOrElse
    \/ CallOptionUnwrapOr
    \/ CallOptionUnwrapOrElse
    \/ CallResultOk
    \/ CallResultErr
    \/ CallResultUnwrapOr
    \/ CallResultUnwrapOrElse
    \/ CallOptionAll
    \/ CallOptionAny
    \/ CallResultAll
    \/ CallResultAny

SpecRaise == InitRaise /\ [][NextRaise]_vars

----------------------------------------------------------------------------
(* Promises, and the wrappers OptionAsync / ResultAsync *)

\* a promise fulfilled with value; a promise is never fulfilled with a
\* thenable
Promise(value) == [tag |-> "Promise", value |-> value]

\* new OptionAsync(option) / new ResultAsync(result): wraps one promise
OptionAsync_new(option) == [tag |-> "OptionAsync", value |-> option]

ResultAsync_new(result) == [tag |-> "ResultAsync", value |-> result]

\* a promise rejected with reason
Rejected(reason) == [tag |-> "Rejected", value |-> reason]

IsThenable(x) ==
    x.tag \in {"Promise", "Rejected", "OptionAsync", "ResultAsync"}

\* await x: the fulfilment value of a promise, of the promise a wrapper
\* owns (its then() delegates to that promise), or x itself; awaiting a
\* rejected promise throws its reason
Await(x) ==
    LET p == IF x.tag \in {"OptionAsync", "ResultAsync"} THEN x.value ELSE x
    IN  IF p.tag = "Promise" THEN p.value
        ELSE IF p.tag = "Rejected" THEN Thrown(p.value)
        ELSE p

\* Promise.resolve(x), and the promise of an async function or of a then()
\* callback that returns x: a thenable is followed, never nested
Promise_resolve(x) ==
    LET v == Await(x) IN
        IF v.tag = "thrown" THEN Rejected(v.value) ELSE Promise(v)

\* what callbacks of the async methods may return
AsyncPayloads == Payloads \cup {Promise(V1), Promise(Undefined)}

OptionAsyncs == {OptionAsync_new(Promise(o)) : o \in Options}

ResultAsyncs == {ResultAsync_new(Promise(r)) : r \in Results}

\* Option<U> | OptionAsync<U> | Promise<Option<U>>
OptionLikes == Options \cup OptionAsyncs \cup {Promise(o) : o \in Options}

ResultLikes == Results \cup ResultAsyncs \cup {Promise(r) : r \in Results}

AsyncMapFns == [Held -> AsyncPayloads]

AsyncOptionBindFns == [Held -> OptionLikes]

AsyncResultBindFns == [Held -> ResultLikes]

\* () => U | Promise<U>
ThunkFns == [{Undefined} -> AsyncPayloads]

(* class OptionAsync *)

\* Every method that derives a wrapper does it with this.option.then(..) /
\* this.result.then(..): on a rejected promise then() does not call its
\* callback and gives a promise rejected with the same reason.

\* a slip that appends .catch(none) the way wrapAsync does
OptionAsync_map_catches(self, f) ==
    IF self.value.tag = "Rejected"
    THEN Call(OptionAsync_new(Promise(none)), <<>>)
    ELSE LET option == Await(self.value) IN
        IF isNone(option)
        THEN Call(OptionAsync_new(Promise_resolve(none)), <<>>)
        ELSE Call(OptionAsync_new(Promise_resolve(
                      some(Await(f.map[inner(option)])))),
                  <<Invocation(f, inner(option))>>)

OptionAsync_andThen(self, f) ==
    IF self.value.tag = "Rejected"
    THEN Call(OptionAsync_new(self.value), <<>>)
    ELSE LET option == Await(self.value) IN
            IF isNone(option)
            THEN Call(OptionAsync_new(Promise_resolve(none)), <<>>)
            ELSE LET r == f.map[inner(option)] IN
                Call(OptionAsync_new(Promise_resolve(
                         IF r.tag = "OptionAsync" THEN Await(r.value) ELSE r)),
                     <<Invocation(f, inner(option))>>)

OptionAsync_map(self, f) ==
    IF self.value.tag = "Rejected"
    THEN Call(OptionAsync_new(self.value), <<>>)
    ELSE LET option == Await(self.value) IN
            IF isNone(option)
            THEN Call(OptionAsync_new(Promise_resolve(none)), <<>>)
            ELSE Call(OptionAsync_new(Promise_resolve(
                          some(Await(f.map[inner(option)])))),
                      <<Invocation(f, inner(option))>>)

OptionAsync_match(self, someFn, noneFn) ==
    LET c == Option_match(Await(self.value), someFn, noneFn) IN
        Call(Promise_resolve(c.ret), c.log)

OptionAsync_okOr(self, error) ==
    IF self.value.tag = "Rejected"
    THEN Call(ResultAsync_new(self.value), <<>>)
    ELSE LET option == Await(self.value) IN
            Call(ResultAsync_new(Promise_resolve(
                     IF isNone(option) THEN err(error)
                     ELSE ok(inner(option)))), <<>>)

OptionAsync_okOrElse(self, f) ==
    IF self.value.tag = "Rejected"
    THEN Call(ResultAsync_new(self.value), <<>>)
    ELSE LET option == Await(self.value) IN
            IF isNone(option)
            THEN Call(ResultAsync_new(Promise_resolve(
                          err(Await(f.map[Undefined])))),
                      <<Invocation(f, Undefined)>>)
            ELSE Call(ResultAsync_new(Promise_resolve(ok(inner(option)))),
                      <<>>)

OptionAsync_unwrapOr(self, value) ==
    LET c == Option_unwrapOr(Await(self.value), value) IN
        Call(Promise_resolve(c.ret), c.log)

OptionAsync_unwrapOrElse(self, f) ==
    LET c == Option_unwrapOrElse(Await(self.value), f) IN
        Call(Promise_resolve(Await(c.ret)), c.log)

(* class ResultAsync *)

\* a slip that wraps the callback's result the way map does
ResultAsync_andThen_wraps(self, f) ==
    LET result == Await(self.value) IN
        IF isErr(result)
        THEN Call(ResultAsync_new(Promise_resolve(result)), <<>>)
        ELSE Call(ResultAsync_new(Promise_resolve(ok(f.map[inner(result)]))),
                  <<Invocation(f, inner(result))>>)

ResultAsync_andThen(self, f) ==
    IF self.value.tag = "Rejected"
    THEN Call(ResultAsync_new(self.value), <<>>)
    ELSE LET result == Await(self.value) IN
            IF isErr(result)
            THEN Call(ResultAsync_new(Promise_resolve(result)), <<>>)
            ELSE LET r == f.map[inner(result)] IN
                Call(ResultAsync_new(Promise_resolve(
                         IF r.tag = "ResultAsync" THEN Await(r.value)
                         ELSE Await(r))),
                     <<Invocation(f, inner(result))>>)

ResultAsync_err(self) ==
    IF self.value.tag = "Rejected"
    THEN Call(OptionAsync_new(self.value), <<>>)
    ELSE LET c == Result_err(Await(self.value)) IN
        Call(OptionAsync_new(Promise_resolve(c.ret)), c.log)

ResultAsync_map(self, f) ==
    IF self.value.tag = "Rejected"
    THEN Call(ResultAsync_new(self.value), <<>>)
    ELSE LET result == Await(self.value) IN
            IF isErr(result)
            THEN Call(ResultAsync_new(Promise_resolve(result)), <<>>)
            ELSE Call(ResultAsync_new(Promise_resolve(
                          ok(Await(f.map[inner(result)])))),
                      <<Invocation(f, inner(result))>>)

ResultAsync_mapErr(self, f) ==
    IF self.value.tag = "Rejected"
    THEN Call(ResultAsync_new(self.value), <<>>)
    ELSE LET result == Await(self.value) IN
            IF isOk(result)
            THEN Call(ResultAsync_new(Promise_resolve(result)), <<>>)
            ELSE Call(ResultAsync_new(Promise_resolve(
                          err(Await(f.map[inner(result)])))),
                      <<Invocation(f, inner(result))>>)

ResultAsync_match(self, okFn, errFn) ==
    LET c == Result_match(Await(self.value), okFn, errFn) IN
        Call(Promise_resolve(c.ret), c.log)

ResultAsync_ok(self) ==
    IF self.value.tag = "Rejected"
    THEN Call(OptionAsync_new(self.value), <<>>)
    ELSE LET c == Result_ok(Await(self.value)) IN
        Call(OptionAsync_new(Promise_resolve(c.ret)), c.log)

ResultAsync_orElse(self, f) ==
    IF self.value.tag = "Rejected"
    THEN Call(ResultAsync_new(self.value), <<>>)
    ELSE LET result == Await(self.value) IN
            IF isOk(result)
            THEN Call(ResultAsync_new(Promise_resolve(result)), <<>>)
            ELSE LET r == f.map[inner(result)] IN
                Call(ResultAsync_new(Promise_resolve(
                         IF r.tag = "ResultAsync" THEN Await(r.value) ELSE r)),
                     <<Invocation(f, inner(result))>>)

\* a slip that copies unwrapOr into unwrapErrOr
ResultAsync_unwrapErrOr_asUnwrapOr(self, value) ==
    LET c == Result_unwrapOr(Await(self.value), value) IN
        Call(Promise_resolve(c.ret), c.log)

ResultAsync_unwrapErrOr(self, value) ==
    LET c == Result_unwrapErrOr(Await(self.value), value) IN
        Call(Promise_resolve(c.ret), c.log)

ResultAsync_unwrapErrOrElse(self, f) ==
    LET c == Result_unwrapErrOrElse(Await(self.value), f) IN
        Call(Promise_resolve(c.ret), c.log)

ResultAsync_unwrapOr(self, value) ==
    LET c == Result_unwrapOr(Await(self.value), value) IN
        Call(Promise_resolve(c.ret), c.log)

ResultAsync_unwrapOrElse(self, f) ==
    LET c == Result_unwrapOrElse(Await(self.value), f) IN
        Call(Promise_resolve(c.ret), c.log)

\* x.andThen(f).andThen(g)
ResultAsync_bindLeft(self, f, g) ==
    LET first == ResultAsync_andThen(self, f) IN
        Chain(first, ResultAsync_andThen(first.ret, g))

\* the three kinds of value a bind callback returns: the sync type, the
\* async wrapper and a raw promise
ChainResults ==
    {ok(V1), err(V2), ResultAsync_new(Promise(ok(V2))), Promise(err(V1))}

ChainFns == [Held -> ChainResults]

----------------------------------------------------------------------------
(* namespace Option / namespace Result: from, fromOr, wrap and their kin *)

\* typeof value === 'object' && value !== null && it owns OPTION_SYMBOL;
\* Some and None declare that field, OptionAsync does not
isOption(value) == value.tag \in {"Some", "None"}

\* a slip that leaves out the isOption test
Option_from_noPassThrough(value) ==
    IF value = Undefined \/ value = Null THEN none ELSE some(value)

Option_from(value) ==
    IF isOption(value)
    THEN IF value.tag = "Some" THEN value ELSE none
    ELSE IF value = Undefined \/ value = Null THEN none ELSE some(value)

\* try { return from(fn()) } catch { return none() }
Option_wrap(f) ==
    LET value == f.map[Undefined] IN
        Call(IF value.tag = "thrown" THEN none ELSE Option_from(value),
             <<Invocation(f, Undefined)>>)

\* new OptionAsync(fn().then(some).catch(none)): fn() runs in the caller,
\* outside any try
Option_wrapAsync(f) ==
    LET promise == f.map[Undefined]
        then == IF promise.tag = "Promise"
                THEN Promise(some(promise.value))
                ELSE promise
        catch == IF then.tag = "Rejected" THEN Promise(none) ELSE then
    IN  Call(IF promise.tag = "thrown" THEN promise
             ELSE OptionAsync_new(catch),
             <<Invocation(f, Undefined)>>)

\* a slip that passes an Err through like an Ok
Result_fromOr_passesErr(data, error) ==
    IF data.tag \in {"Ok", "Err"} THEN Call(data, <<>>)
    ELSE IF data = Null \/ data = Undefined THEN Call(err(error), <<>>)
    ELSE Call(ok(data), <<>>)

Result_fromOr(data, error) ==
    IF data.tag = "Ok" THEN Call(data, <<>>)
    ELSE IF data.tag = "Err" THEN Call(err(error), <<>>)
    ELSE IF data = Null \/ data = Undefined THEN Call(err(error), <<>>)
    ELSE Call(ok(data), <<>>)

\* error: () => Result<T, E> is called without an argument
Result_fromOrElse(data, error) ==
    IF data.tag = "Ok" THEN Call(data, <<>>)
    ELSE IF data.tag = "Err" \/ data = Null \/ data = Undefined
    THEN Call(error.map[Undefined], <<Invocation(error, Undefined)>>)
    ELSE Call(ok(data), <<>>)

\* try { return ok(fn()) } catch (error) { return err(error) }
Result_wrap(f) ==
    LET value == f.map[Undefined] IN
        Call(IF value.tag = "thrown" THEN err(value.value) ELSE ok(value),
             <<Invocation(f, Undefined)>>)

\* a slip that rethrows instead of substituting the fixed error
Result_wrapOr_rethrows(f, error) ==
    LET value == f.map[Undefined] IN
        Call(IF value.tag = "thrown" THEN value ELSE ok(value),
             <<Invocation(f, Undefined)>>)

Result_wrapOr(f, error) ==
    LET value == f.map[Undefined] IN
        Call(IF value.tag = "thrown" THEN err(error) ELSE ok(value),
             <<Invocation(f, Undefined)>>)

\* catch (e) { return error(e) }: error returns the Result itself
Result_wrapOrElse(f, error) ==
    LET value == f.map[Undefined] IN
        IF value.tag = "thrown"
        THEN Call(error.map[value.value],
                  <<Invocation(f, Undefined), Invocation(error, value.value)>>)
        ELSE Call(ok(value), <<Invocation(f, Undefined)>>)

\* the async forms run the same try / catch inside an async function, so
\* that a throw of fn() and a rejection of its promise are both caught by
\* await fn()
Result_wrapAsync(f) ==
    LET value == Await(f.map[Undefined]) IN
        Call(ResultAsync_new(Promise(
                 IF value.tag = "thrown" THEN err(value.value)
                 ELSE ok(value))),
             <<Invocation(f, Undefined)>>)

Result_wrapOrAsync(f, error) ==
    LET value == Await(f.map[Undefined]) IN
        Call(ResultAsync_new(Promise(
                 IF value.tag = "thrown" THEN err(error) ELSE ok(value))),
             <<Invocation(f, Undefined)>>)

Result_wrapOrElseAsync(f, error) ==
    LET value == Await(f.map[Undefined]) IN
        IF value.tag = "thrown"
        THEN Call(ResultAsync_new(Promise(error.map[value.value])),
                  <<Invocation(f, Undefined), Invocation(error, value.value)>>)
        ELSE Call(ResultAsync_new(Promise(ok(value))),
                  <<Invocation(f, Undefined)>>)

----------------------------------------------------------------------------
(* One call of one async method, awaited: await x.op(f) *)

IsMapCallback(f) == f.name = "f" /\ f.map \in AsyncMapFns

IsMapErrCallback(g) == g.name = "g" /\ g.map \in AsyncMapFns

IsThunk(g) == g.name = "g" /\ g.map \in ThunkFns

\* receivers drawn from the given wrappers, with the callbacks and
\* arguments of each kind of call
InitAsyncOn(optionAsyncs, resultAsyncs) ==
    /\ NoAggregator
    /\ op = "init"
    /\ res = Undefined
    /\ log = <<>>
    /\ \/ /\ recv \in optionAsyncs
          /\ fn \in {Callback("f", m) : m \in AsyncMapFns}
          /\ gn \in {Callback("g", m) : m \in ThunkFns}
          /\ args = <<>>
       \/ /\ recv \in optionAsyncs \cup resultAsyncs
          /\ fn = NoFn
          /\ gn \in {Callback("g", m) : m \in ThunkFns}
          /\ args \in {<<v>> : v \in AsyncPayloads}
       \/ /\ recv \in optionAsyncs
          /\ fn \in {Callback("f", m) : m \in AsyncOptionBindFns}
          /\ gn = NoFn
          /\ args = <<>>
       \/ /\ recv \in resultAsyncs
          /\ fn \in {Callback("f", m) : m \in AsyncMapFns}
          /\ gn \in {Callback("g", m) : m \in AsyncMapFns}
          /\ args = <<>>
       \/ /\ recv \in resultAsyncs
          /\ fn \in {Callback("f", m) : m \in AsyncResultBindFns}
          /\ gn = NoFn
          /\ args = <<>>
       \/ /\ recv \in resultAsyncs
          /\ fn \in {Callback("f", m) : m \in ChainFns}
          /\ gn \in {Callback("g", m) : m \in ChainFns}
          /\ args = <<>>

InitAsync == InitAsyncOn(OptionAsyncs, ResultAsyncs)

\* const result = await call
ReturnAwaited(name, call) == Return(name, Call(Await(call.ret), call.log))

AwaitOptionAsyncMap ==
    /\ op = "init" /\ recv.tag = "OptionAsync" /\ IsMapCallback(fn)
    /\ ReturnAwaited("OptionAsync.map", OptionAsync_map(recv, fn))

AwaitOptionAsyncAndThen ==
    /\ op = "init" /\ recv.tag = "OptionAsync"
    /\ fn.map \in AsyncOptionBindFns
    /\ ReturnAwaited("OptionAsync.andThen", OptionAsync_andThen(recv, fn))

AwaitOptionAsyncMatch ==
    /\ op = "init" /\ recv.tag = "OptionAsync"
    /\ IsMapCallback(fn) /\ IsThunk(gn)
    /\ ReturnAwaited("OptionAsync.match", OptionAsync_match(recv, fn, gn))

AwaitOptionAsyncOkOr ==
    /\ op = "init" /\ recv.tag = "OptionAsync" /\ Len(args) = 1
    /\ ReturnAwaited("OptionAsync.okOr", OptionAsync_okOr(recv, args[1]))

AwaitOptionAsyncOkOrElse ==
    /\ op = "init" /\ recv.tag = "OptionAsync" /\ fn = NoFn /\ IsThunk(gn)
    /\ ReturnAwaited("OptionAsync.okOrElse", OptionAsync_okOrElse(recv, gn))

AwaitOptionAsyncUnwrapOr ==
    /\ op = "init" /\ recv.tag = "OptionAsync" /\ Len(args) = 1
    /\ ReturnAwaited("OptionAsync.unwrapOr",
                     OptionAsync_unwrapOr(recv, args[1]))

AwaitOptionAsyncUnwrapOrElse ==
    /\ op = "init" /\ recv.tag = "OptionAsync" /\ fn = NoFn /\ IsThunk(gn)
    /\ ReturnAwaited("OptionAsync.unwrapOrElse",
                     OptionAsync_unwrapOrElse(recv, gn))

AwaitResultAsyncMap ==
    /\ op = "init" /\ recv.tag = "ResultAsync" /\ IsMapCallback(fn)
    /\ ReturnAwaited("ResultAsync.map", ResultAsync_map(recv, fn))

AwaitResultAsyncMapErr ==
    /\ op = "init" /\ recv.tag = "ResultAsync" /\ IsMapErrCallback(gn)
    /\ ReturnAwaited("ResultAsync.mapErr", ResultAsync_mapErr(recv, gn))

AwaitResultAsyncAndThen ==
    /\ op = "init" /\ recv.tag = "ResultAsync"
    /\ fn.map \in AsyncResultBindFns
    /\ ReturnAwaited("ResultAsync.andThen", ResultAsync_andThen(recv, fn))

AwaitResultAsyncOrElse ==
    /\ op = "init" /\ recv.tag = "ResultAsync"
    /\ fn.map \in AsyncResultBindFns
    /\ ReturnAwaited("ResultAsync.orElse", ResultAsync_orElse(recv, fn))

AwaitResultAsyncAndThenAndThen ==
    /\ op = "init" /\ recv.tag = "ResultAsync"
    /\ fn.map \in ChainFns /\ gn.map \in ChainFns
    /\ ReturnAwaited("ResultAsync.andThen.andThen",
                     ResultAsync_bindLeft(recv, fn, gn))

AwaitResultAsyncMatch ==
    /\ op = "init" /\ recv.tag = "ResultAsync"
    /\ IsMapCallback(fn) /\ IsMapErrCallback(gn)
    /\ ReturnAwaited("ResultAsync.match", ResultAsync_match(recv, fn, gn))

AwaitResultAsyncOk ==
    /\ op = "init" /\ recv.tag = "ResultAsync" /\ Len(args) = 1
    /\ ReturnAwaited("ResultAsync.ok", ResultAsync_ok(recv))

AwaitResultAsyncErr ==
    /\ op = "init" /\ recv.tag = "ResultAsync" /\ Len(args) = 1
    /\ ReturnAwaited("ResultAsync.err", ResultAsync_err(recv))

AwaitResultAsyncUnwrapOr ==
    /\ op = "init" /\ recv.tag = "ResultAsync" /\ Len(args) = 1
    /\ ReturnAwaited("ResultAsync.unwrapOr",
                     ResultAsync_unwrapOr(recv, args[1]))

AwaitResultAsyncUnwrapOrElse ==
    /\ op = "init" /\ recv.tag = "ResultAsync" /\ fn = NoFn /\ IsThunk(gn)
    /\ ReturnAwaited("ResultAsync.unwrapOrElse",
                     ResultAsync_unwrapOrElse(recv, gn))

AwaitResultAsyncUnwrapErrOr ==
    /\ op = "init" /\ recv.tag = "ResultAsync" /\ Len(args) = 1
    /\ ReturnAwaited("ResultAsync.unwrapErrOr",
                     ResultAsync_unwrapErrOr(recv, args[1]))

AwaitResultAsyncUnwrapErrOrElse ==
    /\ op = "init" /\ recv.tag = "ResultAsync" /\ fn = NoFn /\ IsThunk(gn)
    /\ ReturnAwaited("ResultAsync.unwrapErrOrElse",
                     ResultAsync_unwrapErrOrElse(recv, gn))

NextAsync ==
    \/ AwaitOptionAsyncMap
    \/ AwaitOptionAsyncAndThen
    \/ AwaitOptionAsyncMatch
    \/ AwaitOptionAsyncOkOr
    \/ AwaitOptionAsyncOkOrElse
    \/ AwaitOptionAsyncUnwrapOr
    \/ AwaitOptionAsyncUnwrapOrElse
    \/ AwaitResultAsyncMap
    \/ AwaitResultAsyncMapErr
    \/ AwaitResultAsyncAndThen
    \/ AwaitResultAsyncOrElse
    \/ AwaitResultAsyncAndThenAndThen
    \/ AwaitResultAsyncMatch
    \/ AwaitResultAsyncOk
    \/ AwaitResultAsyncErr
    \/ AwaitResultAsyncUnwrapOr
    \/ AwaitResultAsyncUnwrapOrElse
    \/ AwaitResultAsyncUnwrapErrOr
    \/ AwaitResultAsyncUnwrapErrOrElse

SpecAsync == InitAsync /\ [][NextAsync]_vars

----------------------------------------------------------------------------
(* allAsync / anyAsync: an async function that awaits its inputs in a loop *)

\* an argument of an async aggregator: a sync value, an async wrapper or a
\* raw promise; the last two settle on their own, at any time
Input(kind, state, value) == [kind |-> kind, state |-> state, value |-> value]

InputsOf(values) ==
    {Input("value", "fulfilled", v) : v \in values}
        \cup {Input(k, "pending", Undefined) : k \in {"wrapper", "promise"}}

ValuesOf(fam) == IF fam = "Option" THEN Options ELSE Results

InitAggregateAsync ==
    /\ op = "init"
    /\ res = Undefined
    /\ log = <<>>
    /\ recv = Undefined
    /\ fn = NoFn
    /\ gn = NoFn
    /\ args = <<>>
    /\ family \in {"Option", "Result"}
    /\ inputs \in ArgLists(InputsOf(ValuesOf(family)))
    /\ pc = "idle"
    /\ idx = 0
    /\ acc = <<>>
    /\ awaited = <<>>

\* the computation behind a wrapper or a raw promise fulfils
FulfilInput ==
    \E k \in DOMAIN inputs, v \in ValuesOf(family) :
        /\ inputs[k].state = "pending"
        /\ inputs' = [inputs EXCEPT ![k] = Input(inputs[k].kind, "fulfilled", v)]
        /\ UNCHANGED <<family, pc, idx, acc, awaited>>
        /\ UNCHANGED callVars

\* the computation behind a wrapper or a raw promise rejects
RejectInput ==
    \E k \in DOMAIN inputs, r \in Reasons :
        /\ inputs[k].state = "pending"
        /\ inputs' = [inputs EXCEPT ![k] = Input(inputs[k].kind, "rejected", r)]
        /\ UNCHANGED <<family, pc, idx, acc, awaited>>
        /\ UNCHANGED callVars

\* someValues.push(x) / okValues.push(x) / errValues.push(x)
\* a slip that puts the value in front
Push_front(values, x) == <<x>> \o values

Push(values, x) == Append(values, x)

\* the async function settles its promise with value
Settle(state, value) ==
    /\ pc' = state
    /\ res' = value
    /\ UNCHANGED <<idx, acc, awaited>>

\* the call runs the function body up to its first await
Start(name, empty) ==
    /\ op = "init" /\ pc = "idle"
    /\ op' = name
    /\ IF inputs = <<>>
       THEN Settle("resolved", empty)
       ELSE /\ pc' = "awaiting"
            /\ idx' = 1
            /\ awaited' = <<1>>
            /\ UNCHANGED <<acc, res>>
    /\ UNCHANGED <<recv, fn, gn, args, log, family, inputs>>

\* the loop goes on after collecting: await the next input, or return
Continue(values, final) ==
    IF idx = Len(inputs)
    THEN /\ Settle("resolved", final)
    ELSE /\ pc' = "awaiting"
         /\ idx' = idx + 1
         /\ awaited' = Append(awaited, idx + 1)
         /\ acc' = values
         /\ UNCHANGED res

\* a slip that leaves out the await: the loop goes on with whatever the
\* input holds, settled or not
Resumed_unawaited(name) ==
    /\ op = name /\ pc = "awaiting"
    /\ inputs[idx].state # "rejected"
    /\ UNCHANGED <<op, recv, fn, gn, args, log, family, inputs>>

\* the awaited input has fulfilled: the function resumes with its value
Resumed(name) ==
    /\ op = name /\ pc = "awaiting"
    /\ inputs[idx].state = "fulfilled"
    /\ UNCHANGED <<op, recv, fn, gn, args, log, family, inputs>>

CallOptionAllAsync ==
    /\ family = "Option"
    /\ Start("Option.allAsync", some(Array(<<>>)))

\* a slip that starts every await at once instead of one per iteration
CallOptionAnyAsync_concurrent ==
    /\ family = "Option"
    /\ op = "init" /\ pc = "idle"
    /\ op' = "Option.anyAsync"
    /\ IF inputs = <<>>
       THEN Settle("resolved", none)
       ELSE /\ pc' = "awaiting"
            /\ idx' = 1
            /\ awaited' = [i \in 1..Len(inputs) |-> i]
            /\ UNCHANGED <<acc, res>>
    /\ UNCHANGED <<recv, fn, gn, args, log, family, inputs>>

CallOptionAnyAsync ==
    /\ family = "Option"
    /\ Start("Option.anyAsync", none)

CallResultAllAsync ==
    /\ family = "Result"
    /\ Start("Result.allAsync", ok(Array(<<>>)))

CallResultAnyAsync ==
    /\ family = "Result"
    /\ Start("Result.anyAsync", err(Array(<<>>)))

ResumeOptionAllAsync ==
    /\ Resumed("Option.allAsync")
    /\ LET opt == inputs[idx].value IN
        IF isNone(opt)
        THEN Settle("resolved", none)
        ELSE LET someValues == Push(acc, inner(opt)) IN
            Continue(someValues, some(Array(someValues)))

ResumeOptionAnyAsync ==
    /\ Resumed("Option.anyAsync")
    /\ LET opt == inputs[idx].value IN
        IF isSome(opt)
        THEN Settle("resolved", opt)
        ELSE Continue(acc, none)

ResumeResultAllAsync ==
    /\ Resumed("Result.allAsync")
    /\ LET r == inputs[idx].value IN
        IF isErr(r)
        THEN Settle("resolved", r)
        ELSE LET okValues == Push(acc, inner(r)) IN
            Continue(okValues, ok(Array(okValues)))

ResumeResultAnyAsync ==
    /\ Resumed("Result.anyAsync")
    /\ LET r == inputs[idx].value IN
        IF isOk(r)
        THEN Settle("resolved", r)
        ELSE LET errValues == Push(acc, inner(r)) IN
            Continue(errValues, err(Array(errValues)))

\* a slip that catches the rejection and turns it into the failure variant
AwaitThrows_converts ==
    /\ pc = "awaiting"
    /\ inputs[idx].state = "rejected"
    /\ Settle("resolved", IF family = "Option" THEN none ELSE err(inputs[idx].value))
    /\ UNCHANGED <<op, recv, fn, gn, args, log, family, inputs>>

\* the awaited input has rejected: await throws and the function rejects
AwaitThrows ==
    /\ pc = "awaiting"
    /\ inputs[idx].state = "rejected"
    /\ Settle("rejected", inputs[idx].value)
    /\ UNCHANGED <<op, recv, fn, gn, args, log, family, inputs>>

NextAggregateAsync ==
    \/ FulfilInput
    \/ RejectInput
    \/ CallOptionAllAsync
    \/ CallOptionAnyAsync
    \/ CallResultAllAsync
    \/ CallResultAnyAsync
    \/ ResumeOptionAllAsync
    \/ ResumeOptionAnyAsync
    \/ ResumeResultAllAsync
    \/ ResumeResultAnyAsync
    \/ AwaitThrows

SpecAggregateAsync == InitAggregateAsync /\ [][NextAggregateAsync]_vars

----------------------------------------------------------------------------
(* allAsync / anyAsync under the job queue: which inputs hold the          *)
(* aggregate back. The payloads play no part, one per variant is drawn     *)

SamplesOf(fam) == IF fam = "Option" THEN {none, some(V1)} ELSE {ok(V1), err(V2)}

InitBlocking ==
    /\ op = "init"
    /\ res = Undefined
    /\ log = <<>>
    /\ recv = Undefined
    /\ fn = NoFn
    /\ gn = NoFn
    /\ args = <<>>
    /\ family \in {"Option", "Result"}
    /\ inputs \in ArgLists(InputsOf(SamplesOf(family)))
    /\ pc = "idle"
    /\ idx = 0
    /\ acc = <<>>
    /\ awaited = <<>>

\* the computation behind a wrapper or a raw promise fulfils
FulfilSample ==
    \E k \in DOMAIN inputs, v \in SamplesOf(family) :
        /\ inputs[k].state = "pending"
        /\ inputs' = [inputs EXCEPT ![k] = Input(inputs[k].kind, "fulfilled", v)]
        /\ UNCHANGED <<family, pc, idx, acc, awaited>>
        /\ UNCHANGED callVars

NextBlocking ==
    \/ FulfilSample
    \/ RejectInput
    \/ CallOptionAllAsync
    \/ CallOptionAnyAsync
    \/ CallResultAllAsync
    \/ CallResultAnyAsync
    \/ ResumeOptionAllAsync
    \/ ResumeOptionAnyAsync
    \/ ResumeResultAllAsync
    \/ ResumeResultAnyAsync
    \/ AwaitThrows

\* the job queue runs the continuation of an await whose promise has
\* settled; nothing makes a caller call or a pending input settle
SpecBlocking ==
    /\ InitBlocking /\ [][NextBlocking]_vars
    /\ WF_vars(ResumeOptionAllAsync)
    /\ WF_vars(ResumeOptionAnyAsync)
    /\ WF_vars(ResumeResultAllAsync)
    /\ WF_vars(ResumeResultAnyAsync)
    /\ WF_vars(AwaitThrows)

----------------------------------------------------------------------------
(* The eight aggregators side by side: the sync ones on a drawn argument   *)
(* list, the async ones called without arguments                           *)

InitEmpty ==
    /\ op = "init"
    /\ res = Undefined
    /\ log = <<>>
    /\ recv = Undefined
    /\ fn = NoFn
    /\ gn = NoFn
    /\ args \in ArgLists(Options) \cup ArgLists(Results)
    /\ family \in {"Option", "Result"}
    /\ inputs = <<>>
    /\ pc = "idle"
    /\ idx = 0
    /\ acc = <<>>
    /\ awaited = <<>>

\* a sync aggregator returns at once: the call leaves no coroutine behind
ReturnSync(name, value) ==
    /\ op = "init"
    /\ op' = name
    /\ res' = value
    /\ UNCHANGED <<recv, fn, gn, args, log>>
    /\ UNCHANGED aggVars

NextEmpty ==
    \/ /\ args \in ArgLists(Options)
       /\ ReturnSync("Option.all", Option_all(args))
    \/ /\ args \in ArgLists(Options)
       /\ ReturnSync("Option.any", Option_any(args))
    \/ /\ args \in ArgLists(Results)
       /\ ReturnSync("Result.all", Result_all(args))
    \/ /\ args \in ArgLists(Results)
       /\ ReturnSync("Result.any", Result_any(args))
    \/ CallOptionAllAsync
    \/ CallOptionAnyAsync
    \/ CallResultAllAsync
    \/ CallResultAnyAsync

SpecEmpty == InitEmpty /\ [][NextEmpty]_vars

----------------------------------------------------------------------------
(* One call of one function of namespace Option / namespace Result *)

\* what fn() does: return a value (nullish, plain, an Option, a promise)
\* or throw
Outcomes ==
    Payloads \cup {Null, some(V1), none}
        \cup {Promise(V1), Promise(Undefined)}
        \cup {Rejected(e) : e \in Reasons}
        \cup {Thrown(e) : e \in Reasons}

\* the data argument of from / fromOr / fromOrElse
Data == Payloads \cup {Null} \cup Options \cup Results

\* error: (error: unknown) => Result<T, E>
ErrorFns == [Reasons -> {ok(V1), err(V1), err(V2)}]

InitNamespace ==
    /\ NoAggregator
    /\ op = "init"
    /\ res = Undefined
    /\ log = <<>>
    /\ recv = Undefined
    /\ fn \in {Callback("f", m) : m \in [{Undefined} -> Outcomes]}
    /\ gn \in {Callback("g", m) : m \in ErrorFns}
    /\ args \in {<<data, error>> : data \in Data, error \in Payloads}

CallOptionFrom ==
    /\ op = "init"
    /\ Return("Option.from", Call(Option_from(args[1]), <<>>))

CallOptionFromFrom ==
    /\ op = "init"
    /\ Return("Option.from.from",
              Call(Option_from(Option_from(args[1])), <<>>))

CallOptionWrap ==
    /\ op = "init"
    /\ Return("Option.wrap", Option_wrap(fn))

\* fn: () => Promise<T>
AwaitOptionWrapAsync ==
    /\ op = "init"
    /\ fn.map[Undefined].tag \in {"Promise", "Rejected", "thrown"}
    /\ ReturnAwaited("Option.wrapAsync", Option_wrapAsync(fn))

CallResultFromOr ==
    /\ op = "init"
    /\ Return("Result.fromOr", Result_fromOr(args[1], args[2]))

CallResultFromOrElse ==
    /\ op = "init"
    /\ Return("Result.fromOrElse", Result_fromOrElse(args[1], gn))

CallResultWrap ==
    /\ op = "init"
    /\ Return("Result.wrap", Result_wrap(fn))

CallResultWrapOr ==
    /\ op = "init"
    /\ Return("Result.wrapOr", Result_wrapOr(fn, args[2]))

CallResultWrapOrElse ==
    /\ op = "init"
    /\ Return("Result.wrapOrElse", Result_wrapOrElse(fn, gn))

AwaitResultWrapAsync ==
    /\ op = "init"
    /\ ReturnAwaited("Result.wrapAsync", Result_wrapAsync(fn))

AwaitResultWrapOrAsync ==
    /\ op = "init"
    /\ ReturnAwaited("Result.wrapOrAsync", Result_wrapOrAsync(fn, args[2]))

AwaitResultWrapOrElseAsync ==
    /\ op = "init"
    /\ ReturnAwaited("Result.wrapOrElseAsync",
                     Result_wrapOrElseAsync(fn, gn))

NextNamespace ==
    \/ CallOptionFrom
    \/ CallOptionFromFrom
    \/ CallOptionWrap
    \/ AwaitOptionWrapAsync
    \/ CallResultFromOr
    \/ CallResultFromOrElse
    \/ CallResultWrap
    \/ CallResultWrapOr
    \/ CallResultWrapOrElse
    \/ AwaitResultWrapAsync
    \/ AwaitResultWrapOrAsync
    \/ AwaitResultWrapOrElseAsync

SpecNamespace == InitNamespace /\ [][NextNamespace]_vars

----------------------------------------------------------------------------
(* Rejected receivers: one derived value of an OptionAsync / ResultAsync    *)
(* whose computation rejected, awaited                                      *)

RejectedOptionAsyncs == {OptionAsync_new(Rejected(r)) : r \in Reasons}

RejectedResultAsyncs == {ResultAsync_new(Rejected(r)) : r \in Reasons}

\* rejected receivers, and next to them one fulfilled receiver per variant
InitReject ==
    InitAsyncOn(
        RejectedOptionAsyncs
            \cup {OptionAsync_new(Promise(some(V1))), OptionAsync_new(Promise(none))},
        RejectedResultAsyncs
            \cup {ResultAsync_new(Promise(ok(V1))), ResultAsync_new(Promise(err(V2)))})

NextReject ==
    \/ AwaitOptionAsyncMap
    \/ AwaitOptionAsyncAndThen
    \/ AwaitOptionAsyncOkOr
    \/ AwaitOptionAsyncOkOrElse
    \/ AwaitResultAsyncMap
    \/ AwaitResultAsyncMapErr
    \/ AwaitResultAsyncAndThen
    \/ AwaitResultAsyncOrElse
    \/ AwaitResultAsyncAndThenAndThen
    \/ AwaitResultAsyncOk
    \/ AwaitResultAsyncErr

SpecReject == InitReject /\ [][NextReject]_vars

----------------------------------------------------------------------------
(* toString / toJSON, and utils/string/toString                             *)

\* a JavaScript string
Str(text) == [tag |-> "string", value |-> text]

\* a plain object, given by its JSON text
PlainObject(json) == [tag |-> "object", value |-> json]

\* an object that refers to itself
Circular == [tag |-> "circular", value |-> <<>>]

True == Atom("true")

RECURSIVE Array_join(_, _)
\* elements.join(','), from the i-th element on; the arrays drawn hold
\* numbers, whose text is their value
Array_join(elements, i) ==
    IF i > Len(elements) THEN ""
    ELSE (IF i > 1 THEN "," ELSE "") \o elements[i].value
             \o Array_join(elements, i + 1)

\* String(val): the text of a primitive, Array.prototype.toString for an
\* array, Object.prototype.toString for any other object
String(val) ==
    CASE val = unit -> "[object Object]"
      [] val.tag \in {"object", "circular"} -> "[object Object]"
      [] val.tag = "array" -> Array_join(val.value, 1)
      [] OTHER -> val.value

\* JSON.stringify(val) of a value without a toJSON method: a string, the
\* value undefined for undefined, a TypeError for a circular structure
JSON_stringify(val) ==
    CASE val = unit -> Str("{}")
      [] val = Undefined -> Undefined
      [] val.tag = "string" -> Str("\"" \o val.value \o "\"")
      [] val.tag = "object" -> Str(val.value)
      [] val.tag = "circular" ->
            Thrown([tag |-> "TypeError", value |-> "circular structure"])
      [] val.tag = "array" -> Str("[" \o Array_join(val.value, 1) \o "]")
      [] OTHER -> Str(val.value)

\* let value = String(val); if (value === '[object Object]') try { value =
\* JSON.stringify(value) } catch {}: what is stringified is the string
\* value, not val
toString(val) ==
    LET value == String(val) IN
        IF value = "[object Object]"
        THEN LET json == JSON_stringify(Str(value)) IN
                IF json.tag = "thrown" THEN value ELSE json.value
        ELSE value

\* None: return 'null'; Some: return JSON.stringify(this.value)
Option_toJSON(self) ==
    IF self.tag = "None"
    THEN Call(Str("null"), <<>>)
    ELSE Call(JSON_stringify(self.value), <<>>)

\* None: return 'None'; Some: return `Some(${toString(this.value)})`
Option_toString(self) ==
    IF self.tag = "None"
    THEN Call(Str("None"), <<>>)
    ELSE Call(Str("Some(" \o toString(self.value) \o ")"), <<>>)

\* Err: return 'null'; Ok: return JSON.stringify(this.value)
Result_toJSON(self) ==
    IF self.tag = "Err"
    THEN Call(Str("null"), <<>>)
    ELSE Call(JSON_stringify(self.value), <<>>)

Result_toString(self) ==
    IF self.tag = "Err"
    THEN Call(Str("Err(" \o toString(self.value) \o ")"), <<>>)
    ELSE Call(Str("Ok(" \o toString(self.value) \o ")"), <<>>)

\* JSON.stringify(variant): the value that variant.toJSON() returns is
\* serialized in place of the variant
JSON_stringify_toJSON(json) ==
    IF json.ret.tag = "thrown" THEN json
    ELSE Call(JSON_stringify(json.ret), json.log)

\* the payloads whose renderings differ: numbers, strings, a boolean, null,
\* unit (some() / some(undefined)), objects and arrays
Renderable ==
    {V1, V2, True, Null, Undefined,
     Str("x"), Str("[object Object]"),
     PlainObject("{\"a\":1}"), Circular,
     Array(<<>>), Array(<<V1>>), Array(<<V1, V2>>)}

InitSerialize ==
    /\ NoAggregator
    /\ op = "init"
    /\ res = Undefined
    /\ log = <<>>
    /\ recv \in {none} \cup {some(p) : p \in Renderable}
                   \cup {ok(p) : p \in Renderable}
                   \cup {err(p) : p \in Renderable}
    /\ fn = NoFn
    /\ gn = NoFn
    /\ args = <<>>

CallOptionToJSON ==
    /\ op = "init" /\ recv.tag \in {"Some", "None"}
    /\ Return("Option.toJSON", Option_toJSON(recv))

CallOptionToString ==
    /\ op = "init" /\ recv.tag \in {"Some", "None"}
    /\ Return("Option.toString", Option_toString(recv))

CallResultToJSON ==
    /\ op = "init" /\ recv.tag \in {"Ok", "Err"}
    /\ Return("Result.toJSON", Result_toJSON(recv))

CallResultToString ==
    /\ op = "init" /\ recv.tag \in {"Ok", "Err"}
    /\ Return("Result.toString", Result_toString(recv))

\* JSON.stringify(recv)
CallJSONStringify ==
    /\ op = "init"
    /\ Return("JSON.stringify",
              JSON_stringify_toJSON(
                  IF recv.tag \in {"Some", "None"} THEN Option_toJSON(recv)
                  ELSE Result_toJSON(recv)))

NextSerialize ==
    \/ CallOptionToJSON
    \/ CallOptionToString
    \/ CallResultToJSON
    \/ CallResultToString
    \/ CallJSONStringify

SpecSerialize == InitSerialize /\ [][NextSerialize]_vars

----------------------------------------------------------------------------
(* The constructor functions some / ok / err and someAsync / okAsync /      *)
(* errAsync, and what the accessors then report                            *)

\* the argument list of a call f(...arguments): a parameter without an
\* argument is undefined
Argument(arguments) == IF arguments = <<>> THEN Undefined ELSE arguments[1]

\* Promise.resolve(value).then(some): some is called with the fulfilment
\* value as its only argument
someAsync(value) ==
    LET p == Promise_resolve(value) IN
        OptionAsync_new(IF p.tag = "Rejected" THEN p ELSE Promise(some(p.value)))

okAsync(value) ==
    LET p == Promise_resolve(value) IN
        ResultAsync_new(IF p.tag = "Rejected" THEN p ELSE Promise(ok(p.value)))

errAsync(error) ==
    LET p == Promise_resolve(error) IN
        ResultAsync_new(IF p.tag = "Rejected" THEN p ELSE Promise(err(p.value)))

\* what is given to a constructor: nothing, a plain value, undefined, null
\* or a promise
ConstructorArguments ==
    {<<>>} \cup {<<v>> : v \in Payloads \cup {Null, Promise(V1), Promise(Undefined)}}

\* matchers that hand back what they are given
Identity(name) == Callback(name, [v \in Held |-> v])

InitConstruct ==
    /\ NoAggregator
    /\ op = "init"
    /\ res = Undefined
    /\ log = <<>>
    /\ recv = Undefined
    /\ fn = Identity("f")
    /\ gn \in {Identity("g"), Callback("g", [v \in {Undefined} |-> V2])}
    /\ args \in ConstructorArguments

\* const x = <constructed>: the value is returned and kept for the calls
\* that follow
Construct(name, value) ==
    /\ op = "init" /\ recv = Undefined
    /\ op' = name
    /\ recv' = value
    /\ res' = value
    /\ UNCHANGED <<fn, gn, args, log>>
    /\ UNCHANGED aggVars

CallSome ==
    /\ Len(args) <= 1
    /\ Construct("some", some(Argument(args)))

CallOk ==
    /\ Len(args) <= 1
    /\ Construct("ok", ok(Argument(args)))

CallErr ==
    /\ Len(args) <= 1
    /\ Construct("err", err(Argument(args)))

\* const x = await someAsync(value)
AwaitSomeAsync ==
    /\ Len(args) = 1
    /\ Construct("someAsync", Await(someAsync(args[1])))

AwaitOkAsync ==
    /\ Len(args) = 1
    /\ Construct("okAsync", Await(okAsync(args[1])))

AwaitErrAsync ==
    /\ Len(args) = 1
    /\ Construct("errAsync", Await(errAsync(args[1])))

CallInner ==
    /\ op = "init" /\ recv.tag \in {"Some", "Ok", "Err"}
    /\ Return("inner", Call(inner(recv), <<>>))

NextConstruct ==
    \/ CallSome
    \/ CallOk
    \/ CallErr
    \/ AwaitSomeAsync
    \/ AwaitOkAsync
    \/ AwaitErrAsync
    \/ NextCall
    \/ CallInner
    \/ CallOptionUnwrap
    \/ CallResultUnwrap
    \/ CallResultUnwrapErr
    \/ CallOptionMatch
    \/ CallResultMatch
    \/ CallOptionUnwrapOr
    \/ CallResultUnwrapOr

SpecConstruct == InitConstruct /\ [][NextConstruct]_vars

----------------------------------------------------------------------------
(* From sync to async: mapAsync, andThenAsync, mapErrAsync, orElseAsync of  *)
(* None / Some / Err / Ok                                                   *)

noneAsync == OptionAsync_new(Promise_resolve(none))

\* None: return noneAsync(); Some: return someAsync(fn(this.value))
Option_mapAsync(self, f) ==
    IF self.tag = "None"
    THEN Call(noneAsync, <<>>)
    ELSE Call(someAsync(f.map[self.value]), <<Invocation(f, self.value)>>)

\* None: return noneAsync(); Some: return new OptionAsync(fn(this.value))
Option_andThenAsync(self, f) ==
    IF self.tag = "None"
    THEN Call(noneAsync, <<>>)
    ELSE Call(OptionAsync_new(f.map[self.value]),
              <<Invocation(f, self.value)>>)

\* Err: return new ResultAsync(Promise.resolve(this));
\* Ok: return okAsync(fn(this.value))
Result_mapAsync(self, f) ==
    IF self.tag = "Err"
    THEN Call(ResultAsync_new(Promise_resolve(self)), <<>>)
    ELSE Call(okAsync(f.map[self.value]), <<Invocation(f, self.value)>>)

\* Err: return errAsync(fn(this.error));
\* Ok: return new ResultAsync(Promise.resolve(this))
Result_mapErrAsync(self, f) ==
    IF self.tag = "Err"
    THEN Call(errAsync(f.map[self.value]), <<Invocation(f, self.value)>>)
    ELSE Call(ResultAsync_new(Promise_resolve(self)), <<>>)

\* Err: return new ResultAsync(Promise.resolve(this));
\* Ok: return new ResultAsync(fn(this.value))
Result_andThenAsync(self, f) ==
    IF self.tag = "Err"
    THEN Call(ResultAsync_new(Promise_resolve(self)), <<>>)
    ELSE Call(ResultAsync_new(f.map[self.value]),
              <<Invocation(f, self.value)>>)

\* Err: return new ResultAsync(fn(this.error));
\* Ok: return new ResultAsync(Promise.resolve(this))
Result_orElseAsync(self, f) ==
    IF self.tag = "Err"
    THEN Call(ResultAsync_new(f.map[self.value]),
              <<Invocation(f, self.value)>>)
    ELSE Call(ResultAsync_new(Promise_resolve(self)), <<>>)

\* callbacks called name that return a promise fulfilled with one of values
Promising(name, values) ==
    {Callback(name, m) : m \in [Held -> {Promise(v) : v \in values}]}

InitBridge ==
    /\ NoAggregator
    /\ op = "init"
    /\ res = Undefined
    /\ log = <<>>
    /\ args = <<>>
    /\ \/ /\ recv \in Options
          /\ fn \in Promising("f", Payloads) \cup Promising("f", Options)
          /\ gn = NoFn
       \/ /\ recv \in Results
          /\ fn \in Promising("f", Payloads)
          /\ gn \in Promising("g", Payloads)
       \/ /\ recv \in Results
          /\ fn \in Promising("f", Results)
          /\ gn = NoFn

AwaitOptionMapAsync ==
    /\ op = "init" /\ recv \in Options /\ fn \in Promising("f", Payloads)
    /\ ReturnAwaited("Option.mapAsync", Option_mapAsync(recv, fn))

AwaitOptionAndThenAsync ==
    /\ op = "init" /\ recv \in Options /\ fn \in Promising("f", Options)
    /\ ReturnAwaited("Option.andThenAsync", Option_andThenAsync(recv, fn))

AwaitResultMapAsync ==
    /\ op = "init" /\ recv \in Results /\ fn \in Promising("f", Payloads)
    /\ ReturnAwaited("Result.mapAsync", Result_mapAsync(recv, fn))

AwaitResultMapErrAsync ==
    /\ op = "init" /\ recv \in Results /\ gn \in Promising("g", Payloads)
    /\ ReturnAwaited("Result.mapErrAsync", Result_mapErrAsync(recv, gn))

AwaitResultAndThenAsync ==
    /\ op = "init" /\ recv \in Results /\ fn \in Promising("f", Results)
    /\ ReturnAwaited("Result.andThenAsync", Result_andThenAsync(recv, fn))

AwaitResultOrElseAsync ==
    /\ op = "init" /\ recv \in Results /\ fn \in Promising("f", Results)
    /\ ReturnAwaited("Result.orElseAsync", Result_orElseAsync(recv, fn))

NextBridge ==
    \/ AwaitOptionMapAsync
    \/ AwaitOptionAndThenAsync
    \/ AwaitResultMapAsync
    \/ AwaitResultMapErrAsync
    \/ AwaitResultAndThenAsync
    \/ AwaitResultOrElseAsync

SpecBridge == InitBridge /\ [][NextBridge]_vars

----------------------------------------------------------------------------
(* Several consumers of one OptionAsync / ResultAsync: each registers a     *)
(* reaction on the one promise the wrapper owns; the promise settles once   *)
(* and then runs the reactions in the order they were registered            *)

\* largest number of consumers of the wrapper
MaxConsumers == 3

\* a promise that has not settled yet
Pending == [tag |-> "Pending", value |-> <<>>]

False == Atom("false")

Boolean(b) == IF b THEN True ELSE False

\* async isSome() { return (await this.option).isSome() }
OptionAsync_isSome(self) ==
    Call(Promise_resolve(Boolean(isSome(Await(self.value)))), <<>>)

\* async isOk() { return (await this.result).isOk() }
ResultAsync_isOk(self) ==
    Call(Promise_resolve(Boolean(isOk(Await(self.value)))), <<>>)

\* then(onfulfilled): this.option.then(onfulfilled), the reaction receives
\* the value the promise fulfilled with
OptionAsync_then(self) == Call(self.value, <<>>)

ResultAsync_then(self) == Call(self.value, <<>>)

\* what a consumer of the given kind receives from the wrapper as it is now
Observation(kind, self) ==
    IF self.tag = "OptionAsync"
    THEN CASE kind = "then" -> Await(OptionAsync_then(self).ret)
           [] kind = "predicate" -> Await(OptionAsync_isSome(self).ret)
           [] kind = "match" -> Await(OptionAsync_match(self, fn, gn).ret)
           [] kind = "map" -> Await(OptionAsync_map(self, fn).ret)
    ELSE CASE kind = "then" -> Await(ResultAsync_then(self).ret)
           [] kind = "predicate" -> Await(ResultAsync_isOk(self).ret)
           [] kind = "match" -> Await(ResultAsync_match(self, fn, gn).ret)
           [] kind = "map" -> Await(ResultAsync_map(self, fn).ret)

InitConsumers ==
    /\ op = "init"
    /\ res = Undefined
    /\ log = <<>>
    /\ args = <<>>
    /\ family \in {"Option", "Result"}
    /\ recv = IF family = "Option" THEN OptionAsync_new(Pending)
              ELSE ResultAsync_new(Pending)
    /\ fn \in {Callback("f", m) : m \in [Held -> {V1, V2}]}
    /\ gn = IF family = "Option"
            THEN Callback("g", [v \in {Undefined} |-> V2])
            ELSE Identity("g")
    /\ inputs = <<>>
    /\ pc = "idle"
    /\ idx = 0
    /\ acc = <<>>
    /\ awaited = <<>>

\* a consumer calls a method of the wrapper: the method registers its
\* reaction on this.option / this.result and leaves the wrapper as it is
Register(kind) ==
    /\ Len(awaited) + Len(acc) < MaxConsumers
    /\ awaited' = Append(awaited,
                         [kind |-> kind, early |-> recv.value = Pending])
    /\ UNCHANGED <<family, inputs, pc, idx, acc>>
    /\ UNCHANGED callVars

\* await wrapper / wrapper.then(..)
RegisterThen ==
    /\ pc = "idle"
    /\ Register("then")

\* wrapper.isSome() / wrapper.isOk()
RegisterPredicate ==
    /\ pc = "idle"
    /\ Register("predicate")

RegisterMatch ==
    /\ pc = "idle"
    /\ Register("match")

\* await wrapper.map(fn): a chain derived from the wrapper
RegisterMap ==
    /\ pc = "idle"
    /\ Register("map")

\* the computation behind the wrapper fulfils: a promise settles only while
\* it is pending
FulfilReceiver ==
    /\ recv.value = Pending
    /\ \E v \in ValuesOf(family) : recv' = [recv EXCEPT !.value = Promise(v)]
    /\ UNCHANGED <<op, fn, gn, args, res, log>>
    /\ UNCHANGED aggVars

\* a slip that keeps the derived promise in the wrapper (this.option =
\* this.option.then(..)), so that later consumers see the mapped value
RunReaction_rebinding ==
    /\ recv.value.tag = "Promise"
    /\ awaited # <<>>
    /\ LET reaction == Head(awaited)
           seen == Observation(reaction.kind, recv)
       IN  /\ acc' = Append(acc, [kind |-> reaction.kind,
                                  early |-> reaction.early, value |-> seen])
           /\ recv' = IF reaction.kind = "map"
                      THEN [recv EXCEPT !.value = Promise(seen)]
                      ELSE recv
    /\ awaited' = Tail(awaited)
    /\ UNCHANGED <<family, inputs, pc, idx>>
    /\ UNCHANGED <<op, fn, gn, args, res, log>>

\* the settled promise runs its oldest reaction
RunReaction ==
    /\ recv.value.tag = "Promise"
    /\ awaited # <<>>
    /\ LET reaction == Head(awaited)
           seen == Observation(reaction.kind, recv)
       IN  acc' = Append(acc, [kind |-> reaction.kind,
                               early |-> reaction.early, value |-> seen])
    /\ awaited' = Tail(awaited)
    /\ UNCHANGED <<family, inputs, pc, idx>>
    /\ UNCHANGED callVars

NextConsumers ==
    \/ RegisterThen
    \/ RegisterPredicate
    \/ RegisterMatch
    \/ RegisterMap
    \/ FulfilReceiver
    \/ RunReaction

SpecConsumers == InitConsumers /\ [][NextConsumers]_vars

----------------------------------------------------------------------------
(* Properties *)

\* C1: a.map(f) is the Some holding f(v) when a is Some(v); when a is None
\* it is None and f is invoked zero times.
C1_MapHoldsCallbackResult ==
    op = "Option.map" =>
        IF isSome(recv)
        THEN res = Some_new(fn.map[recv.value])
        ELSE res = none /\ log = <<>>

\* C2: r.map(f) is the Ok holding f(v) for Ok(v) and the unchanged Err
\* without invoking f; r.mapErr(g) is the Err holding g(e) for Err(e) and
\* the unchanged Ok without invoking g; r.map(f).mapErr(g) invokes exactly
\* one of f and g, once.
C2_MapAndMapErr ==
    /\ op = "Result.map" =>
        IF isOk(recv)
        THEN res = Ok_new(fn.map[recv.value])
        ELSE res = recv /\ log = <<>>
    /\ op = "Result.mapErr" =>
        IF isErr(recv)
        THEN res = Err_new(gn.map[recv.value])
        ELSE res = recv /\ log = <<>>
    /\ op = "Result.map.mapErr" =>
        /\ Len(log) = 1
        /\ log[1].cb = IF isOk(recv) THEN fn.name ELSE gn.name

\* C3: a.andThen(f).andThen(g) equals a.andThen(v => f(v).andThen(g)) for
\* every Option and every Result a and all f, g, the None / Err cases
\* included.
C3_BindAssociative ==
    /\ op = "Option.andThen.andThen" =>
        res = Option_bindNested(recv, fn, gn).ret
    /\ op = "Option.andThen(nested)" =>
        res = Option_bindLeft(recv, fn, gn).ret
    /\ op = "Result.andThen.andThen" =>
        res = Result_bindNested(recv, fn, gn).ret
    /\ op = "Result.andThen(nested)" =>
        res = Result_bindLeft(recv, fn, gn).ret

\* the first bind succeeded and the second one failed
C3_Witness ==
    /\ op = "Result.andThen.andThen"
    /\ isOk(recv)
    /\ isOk(fn.map[recv.value])
    /\ isErr(res)
    /\ Len(log) = 2

\* C4: Ok(v).andThen(f) is exactly f(v) and Err(e).andThen(f) is the same
\* Err with f not invoked; Err(e).orElse(g) is exactly g(e) and
\* Ok(v).orElse(g) is the same Ok with g not invoked.
C4_DualBinds ==
    /\ op = "Result.andThen" =>
        IF isOk(recv)
        THEN res = fn.map[recv.value] /\ log = <<Invocation(fn, recv.value)>>
        ELSE res = recv /\ log = <<>>
    /\ op = "Result.orElse" =>
        IF isErr(recv)
        THEN res = fn.map[recv.value] /\ log = <<Invocation(fn, recv.value)>>
        ELSE res = recv /\ log = <<>>

\* orElse recovered from an error
C4_Witness ==
    /\ op = "Result.orElse"
    /\ isErr(recv)
    /\ isOk(res)
    /\ log # <<>>

\* the payloads of a list of variants, in argument order
PayloadsOf(list) == [i \in DOMAIN list |-> list[i].value]

\* C8: Option.all is the Some holding [v1..vn] in argument order when every
\* argument is Some, otherwise None; Result.all is the Ok holding [v1..vn]
\* when every argument is Ok, otherwise the Err at the smallest index, and
\* what follows that index has no influence.
C8_AllShortCircuits ==
    /\ op = "Option.all" =>
        IF \A i \in DOMAIN args : isSome(args[i])
        THEN res = Some_new(Array(PayloadsOf(args)))
        ELSE res = none
    /\ op = "Result.all" =>
        IF \A i \in DOMAIN args : isOk(args[i])
        THEN res = Ok_new(Array(PayloadsOf(args)))
        ELSE LET k == Min({i \in DOMAIN args : isErr(args[i])}) IN
                /\ res = args[k]
                /\ res = Result_all(SubSeq(args, 1, k))

\* two different errors are present and the earlier one is returned
C8_Witness ==
    /\ op = "Result.all"
    /\ Len(args) = 3
    /\ isOk(args[1]) /\ isErr(args[2]) /\ isErr(args[3])
    /\ args[2] # args[3]
    /\ res = args[2]

\* C9: Result.any returns the Ok at the smallest index if any argument is
\* Ok; if every argument is Err it returns the Err holding every error in
\* argument order.
C9_AnyCollectsErrors ==
    op = "Result.any" =>
        IF \E i \in DOMAIN args : isOk(args[i])
        THEN res = args[Min({i \in DOMAIN args : isOk(args[i])})]
        ELSE res = Err_new(Array(PayloadsOf(args)))

\* three errors, not all equal, are collected in order
C9_Witness ==
    /\ op = "Result.any"
    /\ Len(args) = 3
    /\ \A i \in DOMAIN args : isErr(args[i])
    /\ args[1] # args[2]
    /\ res = Err_new(Array(<<args[1].value, args[2].value, args[3].value>>))

\* C10: Option.any returns the Some at the smallest index, and None if and
\* only if every argument is None.
C10_AnyFirstSome ==
    op = "Option.any" =>
        /\ (\E i \in DOMAIN args : isSome(args[i])) =>
              res = args[Min({i \in DOMAIN args : isSome(args[i])})]
        /\ isNone(res) <=> \A i \in DOMAIN args : isNone(args[i])

\* two different Some are present, after a None, and the earlier is returned
C10_Witness ==
    /\ op = "Option.any"
    /\ Len(args) = 3
    /\ isNone(args[1]) /\ isSome(args[2]) /\ isSome(args[3])
    /\ args[2] # args[3]
    /\ res = args[2]

\* (await x).op(f): the sync method applied to the awaited receiver
SyncCounterpart ==
    LET x == Await(recv) IN
    CASE op = "OptionAsync.map" -> Option_map(x, fn)
      [] op = "OptionAsync.andThen" -> Option_andThen(x, fn)
      [] op = "OptionAsync.match" -> Option_match(x, fn, gn)
      [] op = "OptionAsync.okOr" -> Option_okOr(x, args[1])
      [] op = "OptionAsync.okOrElse" -> Option_okOrElse(x, gn)
      [] op = "OptionAsync.unwrapOr" -> Option_unwrapOr(x, args[1])
      [] op = "OptionAsync.unwrapOrElse" -> Option_unwrapOrElse(x, gn)
      [] op = "ResultAsync.map" -> Result_map(x, fn)
      [] op = "ResultAsync.mapErr" -> Result_mapErr(x, gn)
      [] op = "ResultAsync.andThen" -> Result_andThen(x, fn)
      [] op = "ResultAsync.orElse" -> Result_orElse(x, fn)
      [] op = "ResultAsync.andThen.andThen" -> Result_bindLeft(x, fn, gn)
      [] op = "ResultAsync.match" -> Result_match(x, fn, gn)
      [] op = "ResultAsync.ok" -> Result_ok(x)
      [] op = "ResultAsync.err" -> Result_err(x)
      [] op = "ResultAsync.unwrapOr" -> Result_unwrapOr(x, args[1])
      [] op = "ResultAsync.unwrapOrElse" -> Result_unwrapOrElse(x, gn)
      [] op = "ResultAsync.unwrapErrOr" -> Result_unwrapErrOr(x, args[1])
      [] op = "ResultAsync.unwrapErrOrElse" -> Result_unwrapErrOrElse(x, gn)

\* C5 as stated: for every operation and every callback, awaiting x.op(f)
\* gives the value of (await x).op(f), with the same callback invocations.
C5_AsyncParity ==
    op # "init" =>
        /\ res = SyncCounterpart.ret
        /\ log = SyncCounterpart.log

\* neither a callback result nor a fallback argument is a promise or an
\* async wrapper
PlainInputs ==
    /\ \A v \in DOMAIN fn.map : ~IsThenable(fn.map[v])
    /\ \A v \in DOMAIN gn.map : ~IsThenable(gn.map[v])
    /\ \A i \in DOMAIN args : ~IsThenable(args[i])

\* C5 amended: parity holds whenever the callbacks return, and the fallback
\* arguments are, plain values (no promise, no async wrapper).
C5_AsyncParityPlain ==
    (op # "init" /\ PlainInputs) =>
        /\ res = SyncCounterpart.ret
        /\ log = SyncCounterpart.log

\* an async bind on a fulfilled Ok whose plain callback failed
C5_Witness ==
    /\ op = "ResultAsync.andThen"
    /\ PlainInputs
    /\ isOk(Await(recv))
    /\ isErr(res)
    /\ Len(log) = 1

\* the value that ends the scan of an aggregator: None / Err for all,
\* Some / Ok for any
Decides(name, v) ==
    CASE name = "Option.allAsync" -> v.tag = "None"
      [] name = "Option.anyAsync" -> v.tag = "Some"
      [] name = "Result.allAsync" -> v.tag = "Err"
      [] name = "Result.anyAsync" -> v.tag = "Ok"

\* C6: the async aggregators await their inputs one at a time in argument
\* order: the awaits were started in the order 1, 2, ..., and when the
\* await of input k was started every input before k had fulfilled with a
\* non-deciding value; so nothing after the deciding input is ever awaited.
C6_SequentialAwait ==
    /\ awaited = [i \in 1..Len(awaited) |-> i]
    /\ \A k \in 1..Len(awaited) : \A j \in 1..(k - 1) :
          /\ inputs[j].state = "fulfilled"
          /\ ~Decides(op, inputs[j].value)

\* anyAsync stopped at the second input although the third, a promise, had
\* already fulfilled with a Some
C6_Witness ==
    /\ op = "Option.anyAsync" /\ pc = "resolved"
    /\ Len(inputs) = 3
    /\ awaited = <<1, 2>>
    /\ inputs[1].kind = "wrapper"
    /\ inputs[3].kind = "promise" /\ inputs[3].state = "fulfilled"
    /\ inputs[3].value.tag = "Some"
    /\ res = inputs[2].value

AllFulfilled == \A k \in DOMAIN inputs : inputs[k].state = "fulfilled"

\* the settled values of the inputs, in argument order
SettledValues == [k \in DOMAIN inputs |-> inputs[k].value]

\* C7: when every input fulfils, the value an async aggregator resolves to
\* is the sync aggregator applied to the settled values in argument order.
C7_AsyncAggregateIsSync ==
    (pc \in {"resolved", "rejected"} /\ AllFulfilled) =>
        /\ pc = "resolved"
        /\ op = "Option.allAsync" => res = Option_all(SettledValues)
        /\ op = "Option.anyAsync" => res = Option_any(SettledValues)
        /\ op = "Result.allAsync" => res = Result_all(SettledValues)
        /\ op = "Result.anyAsync" => res = Result_any(SettledValues)

\* a sync value, a wrapper and a raw promise, all Ok with payloads not all
\* equal, are collected in argument order
C7_Witness ==
    /\ op = "Result.allAsync" /\ pc = "resolved"
    /\ Len(inputs) = 3
    /\ inputs[1].kind = "promise"
    /\ inputs[2].kind = "value"
    /\ inputs[3].kind = "wrapper"
    /\ AllFulfilled
    /\ inputs[1].value # inputs[3].value
    /\ res = Ok_new(Array(<<inputs[1].value.value, inputs[2].value.value,
                            inputs[3].value.value>>))

\* the sync value behind what a bind callback returned: the value itself,
\* the fulfilment of a raw promise, or the fulfilment of the promise an
\* async wrapper owns
Flat(r) ==
    IF r.tag \in {"OptionAsync", "ResultAsync"} THEN r.value.value
    ELSE IF r.tag = "Promise" THEN r.value
    ELSE r

\* the callback that returns, as a sync value, what f returns in any kind
FlatCallback(f) == Callback(f.name, [v \in DOMAIN f.map |-> Flat(f.map[v])])

\* the sync value a fulfilled async receiver holds
Fulfilment(x) == x.value.value

\* C11: whichever of the three kinds the callback of OptionAsync.andThen,
\* ResultAsync.andThen or ResultAsync.orElse returns (sync value, async
\* wrapper, raw promise), the chain resolves to the flat sync value behind
\* it, never to a nested wrapper or promise; a chain of two binds resolves
\* to what the sync binds give on the flat values.
C11_BindFlattens ==
    /\ op = "OptionAsync.andThen" =>
          /\ res \in Options
          /\ isSome(Fulfilment(recv)) =>
                res = Flat(fn.map[Fulfilment(recv).value])
    /\ op = "ResultAsync.andThen" =>
          /\ res \in Results
          /\ isOk(Fulfilment(recv)) =>
                res = Flat(fn.map[Fulfilment(recv).value])
    /\ op = "ResultAsync.orElse" =>
          /\ res \in Results
          /\ isErr(Fulfilment(recv)) =>
                res = Flat(fn.map[Fulfilment(recv).value])
    /\ op = "ResultAsync.andThen.andThen" =>
          /\ res \in Results
          /\ res = Result_bindLeft(Fulfilment(recv), FlatCallback(fn),
                                   FlatCallback(gn)).ret

\* okAsync(v).andThen(sync result).andThen(async wrapper) resolved to the
\* flat Ok behind the wrapper
C11_Witness ==
    /\ op = "ResultAsync.andThen.andThen"
    /\ isOk(Fulfilment(recv))
    /\ fn.map[Fulfilment(recv).value] = ok(V1)
    /\ gn.map[V1].tag = "ResultAsync"
    /\ res = ok(V2)
    /\ Len(log) = 2

\* C12: ok(v).ok() is some(v) and err(e).ok() is none(); err(e).err() is
\* some(e) and ok(v).err() is none(); some(v).okOr(e) is ok(v) and
\* none().okOr(e) is err(e).
C12_ProjectionsRoundTrip ==
    /\ op = "Result.ok" =>
          \A p \in Payloads :
              /\ recv = ok(p) => res = some(p)
              /\ recv = err(p) => res = none
    /\ op = "Result.err" =>
          \A p \in Payloads :
              /\ recv = err(p) => res = some(p)
              /\ recv = ok(p) => res = none
    /\ op = "Option.okOr" =>
          /\ \A p \in Payloads : recv = some(p) => res = ok(p)
          /\ recv = none => res = err(args[1])

\* the error of an Err was projected into a Some
C12_Witness ==
    /\ op = "Result.err"
    /\ recv = err(V2)
    /\ res = some(V2)

\* C19: unwrapOr / unwrapOrElse give the held value on Some / Ok and the
\* fallback on None / Err; unwrapErrOr / unwrapErrOrElse give the held
\* error on Err and the fallback on Ok; the function given to unwrapOrElse,
\* unwrapErrOrElse or okOrElse is invoked zero times when the payload is
\* present and exactly once otherwise.
C19_FallbackOnlyWhenAbsent ==
    LET lazy(present) ==
            IF present THEN log = <<>>
            ELSE log = <<Invocation(gn, Undefined)>>
    IN
    /\ op = "Option.unwrapOr" =>
          res = IF recv.tag = "Some" THEN recv.value ELSE args[1]
    /\ op = "Option.unwrapOrElse" =>
          /\ res = IF recv.tag = "Some" THEN recv.value ELSE gn.map[Undefined]
          /\ lazy(recv.tag = "Some")
    /\ op = "Option.okOrElse" => lazy(recv.tag = "Some")
    /\ op = "Result.unwrapOr" =>
          res = IF recv.tag = "Ok" THEN recv.value ELSE args[1]
    /\ op = "Result.unwrapOrElse" =>
          /\ res = IF recv.tag = "Ok" THEN recv.value ELSE gn.map[Undefined]
          /\ lazy(recv.tag = "Ok")
    /\ op = "Result.unwrapErrOr" =>
          res = IF recv.tag = "Err" THEN recv.value ELSE args[1]
    /\ op = "Result.unwrapErrOrElse" =>
          /\ res = IF recv.tag = "Err" THEN recv.value ELSE gn.map[Undefined]
          /\ lazy(recv.tag = "Err")

\* the fallback function ran once on an Ok asked for its error, and its
\* value differs from the held payload
C19_Witness ==
    /\ op = "Result.unwrapErrOrElse"
    /\ recv.tag = "Ok"
    /\ Len(log) = 1
    /\ res = gn.map[Undefined]
    /\ res # recv.value

\* C13: Option.from(value) is None for null / undefined, the argument
\* itself for an Option, and the Some holding value otherwise; applying it
\* twice gives what applying it once gives.
C13_FromIdempotent ==
    LET value == args[1]
        expected ==
            IF value \in {Null, Undefined} THEN none
            ELSE IF value \in Options THEN value
            ELSE Some_new(value)
    IN  /\ op = "Option.from" => res = expected
        /\ op = "Option.from.from" => res = expected

\* from applied twice to a plain value gives the Some holding it, not a
\* Some holding a Some
C13_Witness ==
    /\ op = "Option.from.from"
    /\ args[1] = V1
    /\ res = Some_new(V1)

\* C14: Option.wrap(fn) invokes fn exactly once; it is the Some holding
\* the returned value whenever fn returns normally and None whenever fn
\* throws; it never throws.
C14_WrapSomeOrNone ==
    op = "Option.wrap" =>
        LET outcome == fn.map[Undefined] IN
            /\ log = <<Invocation(fn, Undefined)>>
            /\ res = IF outcome.tag = "thrown" THEN none
                     ELSE Some_new(outcome)

\* C15: awaiting Option.wrapAsync(fn) gives some(v) when fn's promise
\* fulfils with v and None when the promise rejects or fn throws; neither
\* the call nor the await throws.
C15_WrapAsyncSomeOrNone ==
    op = "Option.wrapAsync" =>
        LET outcome == fn.map[Undefined] IN
            /\ res.tag # "thrown"
            /\ res = IF outcome.tag = "Promise" THEN some(outcome.value)
                     ELSE none

Settled(outcome) ==
    IF outcome.tag \in {"thrown", "Rejected"}
    THEN [failed |-> TRUE, value |-> outcome.value]
    ELSE [failed |-> FALSE,
          value |-> IF outcome.tag = "Promise" THEN outcome.value
                    ELSE outcome]

WrapOps ==
    {"Result.wrap", "Result.wrapOr", "Result.wrapOrElse",
     "Result.wrapAsync", "Result.wrapOrAsync", "Result.wrapOrElseAsync"}

UnwrapError_new(message) == [tag |-> "UnwrapError", value |-> message]

\* C18 as stated: _unwrap on Some / Ok and _unwrapErr on Err return the
\* held value; None._unwrap() fails with an UnwrapError carrying the fixed
\* message, Err(e)._unwrap() fails with e, and Ok(v)._unwrapErr() fails
\* with the fixed message.
C18_UnsafeUnwraps ==
    /\ op = "Option._unwrap" =>
          res = IF recv.tag = "Some" THEN recv.value
                ELSE Thrown(UnwrapError_new(
                         "Attempted to unwrap none option"))
    /\ op = "Result._unwrap" =>
          res = IF recv.tag = "Ok" THEN recv.value ELSE Thrown(recv.value)
    /\ op = "Result._unwrapErr" =>
          res = IF recv.tag = "Err" THEN recv.value
                ELSE Thrown(Error_new(
                         "Tried unwrapping an Ok value as an error."))

\* C18 amended: as stated, except that None._unwrap() fails with a plain
\* Error carrying the fixed message.
C18_UnsafeUnwrapsPlainError ==
    /\ op = "Option._unwrap" =>
          res = IF recv.tag = "Some" THEN recv.value
                ELSE Thrown(Error_new("Attempted to unwrap none option"))
    /\ op = "Result._unwrap" =>
          res = IF recv.tag = "Ok" THEN recv.value ELSE Thrown(recv.value)
    /\ op = "Result._unwrapErr" =>
          res = IF recv.tag = "Err" THEN recv.value
                ELSE Thrown(Error_new(
                         "Tried unwrapping an Ok value as an error."))

\* _unwrap on an Err threw the held error itself
C18_Witness ==
    /\ op = "Result._unwrap"
    /\ recv = err(V2)
    /\ res = Thrown(V2)

Outcome(invocation) ==
    IF invocation.cb = fn.name THEN fn.map[invocation.arg]
    ELSE gn.map[invocation.arg]

\* the invocations that ended with a throw
Raised == {i \in DOMAIN log : Outcome(log[i]).tag = "thrown"}

\* C21: a call of a safe method (map, mapErr, andThen, orElse, ok, err,
\* okOr, okOrElse, all, any, match, unwrapOr, unwrapOrElse, and the chain
\* map.mapErr) throws only when a callback it invoked threw; it then ends
\* with that very throw, unchanged, and invokes nothing after it.
C21_NoThrowFromCore ==
    op # "init" =>
        IF Raised = {}
        THEN res.tag # "thrown"
        ELSE /\ Raised = {Len(log)}
             /\ res = Outcome(log[Len(log)])

\* the error callback of a map.mapErr chain threw on an Err: the chain
\* ended with its throw after that one invocation
C21_Witness ==
    /\ op = "Result.map.mapErr"
    /\ isErr(recv)
    /\ log = <<Invocation(gn, recv.value)>>
    /\ res = Thrown(Boom)

\* C22: when the computation behind an OptionAsync / ResultAsync rejected
\* with r, awaiting what map, mapErr, andThen, orElse, ok, err, okOr or
\* okOrElse derive from it (a chain of two andThen included) throws that
\* same r, and no callback was invoked: the rejection is neither swallowed
\* nor turned into None / Err.
C22_RejectionPropagates ==
    (op # "init" /\ recv.value.tag = "Rejected") =>
        /\ res = Thrown(recv.value.value)
        /\ log = <<>>

\* a chain of two binds on a ResultAsync that rejected with Boom
C22_Witness ==
    /\ op = "ResultAsync.andThen.andThen"
    /\ recv = ResultAsync_new(Rejected(Boom))
    /\ res = Thrown(Boom)
    /\ log = <<>>

\* C23: JSON.stringify of Some(v) or Ok(v) gives the JSON text of v (the
\* text 1 for ok(1)) and JSON.stringify of None or Err(e) gives the text
\* null.
C23_StringifyIsPayloadJSON ==
    op = "JSON.stringify" =>
        res = IF recv.tag \in {"Some", "Ok"} THEN JSON_stringify(recv.value)
              ELSE Str("null")

\* s(x) of C24: String(x), replaced by the JSON text of x exactly when
\* String(x) is "[object Object]", and kept when JSON.stringify(x) fails
Rendering(x) ==
    IF String(x) # "[object Object]" THEN String(x)
    ELSE IF JSON_stringify(x).tag = "thrown" THEN "[object Object]"
    ELSE JSON_stringify(x).value

\* C24: Some(v).toString() is "Some(" s(v) ")", Ok(v) gives "Ok(" s(v) ")",
\* Err(e) gives "Err(" s(e) ")" and None gives "None".
C24_ToStringRendering ==
    op \in {"Option.toString", "Result.toString"} =>
        res = Str(CASE recv.tag = "None" -> "None"
                    [] recv.tag = "Some" -> "Some(" \o Rendering(recv.value) \o ")"
                    [] recv.tag = "Ok" -> "Ok(" \o Rendering(recv.value) \o ")"
                    [] recv.tag = "Err" -> "Err(" \o Rendering(recv.value) \o ")")

\* C25: some(), ok() and err() without argument hold Unit; with a payload
\* v, whatever it is, they hold exactly v; inner(), _unwrap(), _unwrapErr(),
\* match and unwrapOr report the held value; awaiting someAsync / okAsync /
\* errAsync gives what the sync constructor gives for the settled payload.
C25_ConstructorsFixPayload ==
    /\ op \in {"some", "ok", "err"} =>
          res.value = IF args = <<>> THEN unit ELSE args[1]
    /\ op = "someAsync" => res = some(Await(args[1]))
    /\ op = "okAsync" => res = ok(Await(args[1]))
    /\ op = "errAsync" => res = err(Await(args[1]))
    /\ op \in {"inner", "Option._unwrap", "Option.match", "Option.unwrapOr"}
          => res = recv.value
    /\ (op \in {"Result._unwrap", "Result.unwrapOr"} /\ isOk(recv))
          => res = recv.value
    /\ (op = "Result._unwrapErr" /\ isErr(recv)) => res = recv.value
    /\ op = "Result.match" => res = recv.value

\* the value the promise that cb returns for the receiver's payload fulfils
\* with
Fulfilled(cb) == cb.map[recv.value].value

\* the callback was invoked once, on the receiver's payload
InvokedOnce(cb) == log = <<Invocation(cb, recv.value)>>

\* C26: Some(v).mapAsync(fn) resolves to the Some holding the fulfilment
\* value of fn(v) and Some(v).andThenAsync(fn) to the Option fn(v) fulfils
\* with; on None neither invokes fn and both resolve to None; likewise
\* mapAsync / andThenAsync on Ok, mapErrAsync / orElseAsync on Err, and the
\* other variant resolves to the unchanged receiver without invoking fn.
C26_SyncToAsyncBridge ==
    /\ op = "Option.mapAsync" =>
          IF isSome(recv)
          THEN res = Some_new(Fulfilled(fn)) /\ InvokedOnce(fn)
          ELSE res = none /\ log = <<>>
    /\ op = "Option.andThenAsync" =>
          IF isSome(recv)
          THEN res = Fulfilled(fn) /\ InvokedOnce(fn)
          ELSE res = none /\ log = <<>>
    /\ op = "Result.mapAsync" =>
          IF isOk(recv)
          THEN res = Ok_new(Fulfilled(fn)) /\ InvokedOnce(fn)
          ELSE res = recv /\ log = <<>>
    /\ op = "Result.mapErrAsync" =>
          IF isErr(recv)
          THEN res = Err_new(Fulfilled(gn)) /\ InvokedOnce(gn)
          ELSE res = recv /\ log = <<>>
    /\ op = "Result.andThenAsync" =>
          IF isOk(recv)
          THEN res = Fulfilled(fn) /\ InvokedOnce(fn)
          ELSE res = recv /\ log = <<>>
    /\ op = "Result.orElseAsync" =>
          IF isErr(recv)
          THEN res = Fulfilled(fn) /\ InvokedOnce(fn)
          ELSE res = recv /\ log = <<>>

C28_EmptyAggregates ==
    LET empty == Array(<<>>) IN
    /\ (op = "Option.all" /\ args = <<>>) => res = Some_new(empty)
    /\ (op = "Option.any" /\ args = <<>>) => res = none
    /\ (op = "Result.all" /\ args = <<>>) => res = Ok_new(empty)
    /\ (op = "Result.any" /\ args = <<>>) => res = Err_new(empty)
    /\ (op = "Option.allAsync" /\ inputs = <<>>) =>
          pc = "resolved" /\ res = Some_new(empty)
    /\ (op = "Option.anyAsync" /\ inputs = <<>>) =>
          pc = "resolved" /\ res = none
    /\ (op = "Result.allAsync" /\ inputs = <<>>) =>
          pc = "resolved" /\ res = Ok_new(empty)
    /\ (op = "Result.anyAsync" /\ inputs = <<>>) =>
          pc = "resolved" /\ res = Err_new(empty)

\* Result.any() without arguments gave the Err holding the empty array
C28_Witness ==
    /\ op = "Result.any"
    /\ args = <<>>
    /\ res = Err_new(Array(<<>>))

\* input k has fulfilled with the value that ends the scan of aggregator op
Deciding(k) ==
    /\ inputs[k].state = "fulfilled"
    /\ Decides(op, inputs[k].value)

AggregateSettled == pc \in {"resolved", "rejected"}

\* every input up to and including the first one that ends the scan has
\* settled (all of them when none ends it)
HeadSettled ==
    \E d \in 0..Len(inputs) :
        /\ \A j \in 1..d : inputs[j].state # "pending"
        /\ \/ d = Len(inputs)
           \/ d >= 1 /\ Deciding(d)

\* the aggregate has settled while input k is pending only if an input
\* before k ended the scan in one of the ways of enders
BlockedBy(enders) ==
    AggregateSettled =>
        \A k \in DOMAIN inputs :
            inputs[k].state = "pending" =>
                \E j \in 1..(k - 1) :
                    \/ Deciding(j)
                    \/ inputs[j].state \in enders

\* C29, as stated: while input k is pending and no input before k is
\* deciding, the aggregate of allAsync / anyAsync is not settled, whatever
\* the inputs after k have settled to; and once every input up to and
\* including the first deciding one has settled, the aggregate eventually
\* settles.
C29_HeadOfLineBlocking ==
    /\ [](BlockedBy({}))
    /\ (op # "init" /\ HeadSettled) ~> AggregateSettled

\* C29, amended: while input k is pending and no input before k is deciding
\* or rejected, the aggregate is not settled, whatever the inputs after k
\* have settled to; and once every input up to and including the first
\* deciding one has settled, the aggregate eventually settles.
C29_HeadOfLineBlockingUnlessRejected ==
    /\ [](BlockedBy({"rejected"}))
    /\ (op # "init" /\ HeadSettled) ~> AggregateSettled

\* allAsync waits on its pending first input although the second has
\* already fulfilled with an Err
C29_Witness ==
    /\ op = "Result.allAsync" /\ pc = "awaiting"
    /\ Len(inputs) = 2
    /\ idx = 1
    /\ inputs[1].state = "pending"
    /\ inputs[2].kind = "promise" /\ Deciding(2)

\* every input before k has fulfilled with a value that lets the scan go on
ScanReaches(k) ==
    \A j \in 1..(k - 1) :
        /\ inputs[j].state = "fulfilled"
        /\ ~Decides(op, inputs[j].value)

\* C30, as stated: once the aggregate has settled, a rejected input k with
\* no deciding input before it means the aggregate rejected with the reason
\* of k, and a rejected input k with a deciding input before it means the
\* aggregate resolved to the short-circuit result.
C30_RejectionsInArgumentOrder ==
    AggregateSettled =>
        \A k \in DOMAIN inputs :
            inputs[k].state = "rejected" =>
                IF \E j \in 1..(k - 1) : Deciding(j)
                THEN /\ pc = "resolved"
                     /\ \E j \in 1..(k - 1) :
                           Deciding(j) /\ res = inputs[j].value
                ELSE /\ pc = "rejected"
                     /\ res = inputs[k].value

\* C30, amended: once the aggregate has settled, a rejected input k with
\* only fulfilled, non-deciding inputs before it means the aggregate
\* rejected with the reason of k and did not resolve; a deciding input j
\* before k with only fulfilled, non-deciding inputs before j means the
\* aggregate resolved to the short-circuit result, the value of input j.
C30_FirstEnderInArgumentOrder ==
    AggregateSettled =>
        \A k \in DOMAIN inputs :
            inputs[k].state = "rejected" =>
                /\ ScanReaches(k) =>
                      /\ pc = "rejected"
                      /\ res = inputs[k].value
                /\ \A j \in 1..(k - 1) :
                      (Deciding(j) /\ ScanReaches(j)) =>
                          /\ pc = "resolved"
                          /\ res = inputs[j].value

\* anyAsync rejected with the reason of its second input, after an Err and
\* before an Ok that had already fulfilled
C30_Witness ==
    /\ op = "Result.anyAsync" /\ pc = "rejected"
    /\ Len(inputs) = 3
    /\ isErr(inputs[1].value)
    /\ inputs[2].state = "rejected"
    /\ res = inputs[2].value
    /\ Deciding(3)

====
